---- MODULE Spec2Model ----
(***************************************************************************)
(* AI Document Assistant: the record store (documents, sections,           *)
(* refinements, comments, feedback), the REST services in front of it      *)
(* (document, section refinement, feedback/comment, export), the AI Text   *)
(* Provider they call, and the browser clients that drive them.            *)
(*                                                                         *)
(* The Flask backend (backend/app.py) is not part of the source tree; its  *)
(* services are modelled from spec.md sections 4-7 over the tables of      *)
(* backend/schema/init_db.sql.  The clients are modelled from              *)
(* frontend/app.js, frontend/src/pages/Projects.jsx (RefinementEditor) and *)
(* frontend/dist/app.bundle.js (ProjectViewer, CreateProjectForm).         *)
(*                                                                         *)
(* A request is a record in reqs; its phase is the position of the request *)
(* in its request/response cycle.  Every store access is one row operation *)
(* and one step: spec.md section 5 makes the per-row write the only atomic *)
(* unit.                                                                   *)
(***************************************************************************)
EXTENDS Integers, Sequences, FiniteSets, TLC

\* ------------------------------------------------------------------------
\* Bounds of the model
\* ------------------------------------------------------------------------

\* requests issued in one behaviour, of all kinds and by all callers
MaxRequests == 4

\* largest page count a generate request asks for
MaxPages == 2

\* keystrokes in the textarea of the SectionEditor
MaxTyped == 3

\* ------------------------------------------------------------------------
\* Values
\* ------------------------------------------------------------------------

\* strings the user can type into a prompt box: sequences of characters,
\* " " is whitespace
PromptInputs == { <<>>, <<" ">>, <<"a", " ">> }

\* texts the AI Text Provider can return on success (opaque transform: any
\* of them, whatever the instruction and the input text)
ProviderOutputs == { "x", "y" }

\* texts the AI Text Provider can return for a page of generateDocument
PageOutputs == { "g" }

\* a SQL NULL in a TEXT column
NullText == "NULL"

\* a SQL NULL in sections.last_feedback (INTEGER; 1 liked, 0 disliked)
NullFeedback == -1

\* the instruction regenerate uses in place of a client prompt
RegenInstruction == <<"r", "e", "g", "e", "n">>

\* the client's currentDoc when no document is open
NoDoc == [id |-> 0, sections |-> <<>>]

\* the id of an object that has no id field
UndefinedId == 0 - 1

\* the JSON body of an error response, {error: ...}, read as a document: it
\* has no id and no sections
ErrorDoc == [id |-> UndefinedId, sections |-> <<>>]

VARIABLES
    documents,      \* table documents, in rowid order
    sections,       \* table sections, in rowid order
    refinements,    \* table refinements, in insertion order
    comments,       \* table comments, in insertion order
    feedback,       \* table feedback, in insertion order
    now,            \* the record store's clock
    providerCalls,  \* calls made to the AI Text Provider so far
    reqs,           \* every request issued so far, in issue order
    currentDoc,     \* app.js App.currentDoc / DocumentView.current
    loadingRefine,  \* app.js SectionCard.loadingRefine, per section card
    loadingRegen,   \* app.js SectionCard.loadingRegen, per section card
    genLoading,     \* app.js ProjectConfig.loading
    form,           \* app.bundle.js CreateProjectForm: prompt, pages, loading
    pvId,           \* app.bundle.js ProjectViewer.id (0: the page is not open)
    pvDoc,          \* app.bundle.js ProjectViewer.doc
    pvLoading,      \* app.bundle.js ProjectViewer.loading
    editing,        \* app.bundle.js ProjectViewer.editing, per section
    edId,           \* Projects.jsx RefinementEditor documentId (0: not mounted)
    edDoc,          \* Projects.jsx RefinementEditor.doc
    edLoading,      \* Projects.jsx RefinementEditor.loading
    localEdits,     \* Projects.jsx RefinementEditor.localEdits, per section
    downloads,      \* app.js DownloadBar: the files handed to the browser
    response,       \* a non-2xx response a client is handling
    surfaced,       \* the message each error path has shown for it
    cancelled,      \* the last confirm() dialog was answered with Cancel
    autosave,       \* SectionEditor: the textarea, the debounce timer, saves
    loggedIn        \* app.js App.user is set

vars == << documents, sections, refinements, comments, feedback, now,
           providerCalls, reqs, currentDoc, loadingRefine, loadingRegen,
           genLoading, form, pvId, pvDoc, pvLoading, editing, edId, edDoc,
           edLoading, localEdits, downloads, response, surfaced,
           cancelled, autosave, loggedIn >>

store == << documents, sections, refinements, comments, feedback >>

\* the bundle's pages: CreateProjectForm and ProjectViewer
viewer == << form, pvId, pvDoc, pvLoading, editing >>

\* the RefinementEditor component
editor == << edId, edDoc, edLoading, localEdits >>

\* a non-2xx response and what was shown for it
errors == << response, surfaced >>

\* what most actions of the pages leave alone
others == << errors, cancelled, autosave, loggedIn >>

\* the state of every client
client == << currentDoc, loadingRefine, loadingRegen, genLoading, viewer,
             editor, downloads, others >>

\* ------------------------------------------------------------------------
\* Helpers
\* ------------------------------------------------------------------------

\* section ids the store can ever hand out (AUTOINCREMENT from 1)
SectionIds == 1 .. (MaxRequests * MaxPages)

\* the ids of the sections of a document a client holds
IdsOf(doc) == { doc.sections[k].id : k \in DOMAIN doc.sections }

\* doc.sections.find(s => s.id === sectionId)
Find(doc, s) ==
    doc.sections[CHOOSE k \in DOMAIN doc.sections : doc.sections[k].id = s]

IsWhitespace(c) == c = " "

RECURSIVE TrimStart(_)
TrimStart(s) ==
    IF s = <<>> THEN <<>>
    ELSE IF IsWhitespace(Head(s)) THEN TrimStart(Tail(s))
    ELSE s

RECURSIVE TrimEnd(_)
TrimEnd(s) ==
    IF s = <<>> THEN <<>>
    ELSE IF IsWhitespace(s[Len(s)]) THEN TrimEnd(SubSeq(s, 1, Len(s) - 1))
    ELSE s

\* String.prototype.trim
Trim(s) == TrimEnd(TrimStart(s))

\* JavaScript truthiness of a string: !s is true exactly for ""
Truthy(s) == s # <<>>

\* Number(pages) || 1
PagesOrOne(n) == IF n = 0 THEN 1 ELSE n

RECURSIVE SelectRows(_, _, _)
SelectRows(table, col, val) ==
    IF table = <<>> THEN <<>>
    ELSE IF Head(table)[col] = val
         THEN <<Head(table)>> \o SelectRows(Tail(table), col, val)
         ELSE SelectRows(Tail(table), col, val)

\* SELECT * FROM refinements WHERE section_id = s, in insertion order
History(s) == SelectRows(refinements, "section_id", s)

\* SELECT * FROM comments WHERE section_id = s
CommentsOf(s) == SelectRows(comments, "section_id", s)

\* SELECT * FROM sections WHERE document_id = d
SectionsOf(d) == SelectRows(sections, "document_id", d)

\* a section as the services serialise it into a JSON response
SectionJson(row) ==
    [ id            |-> row.id,
      position      |-> row.position,
      text          |-> row.text,
      last_feedback |-> row.last_feedback,
      refinements   |-> History(row.id),
      comments      |-> CommentsOf(row.id) ]

RECURSIVE MapSections(_)
MapSections(rows) ==
    IF rows = <<>> THEN <<>>
    ELSE <<SectionJson(Head(rows))>> \o MapSections(Tail(rows))

\* the document with its sections as getDocument / generateDocument return it
DocumentJson(d) == [id |-> d, sections |-> MapSections(SectionsOf(d))]

\* the ids the Record Store holds
StoredSectionIds == { sections[k].id : k \in DOMAIN sections }

StoredDocumentIds == { documents[k].id : k \in DOMAIN documents }

\* a user may start another request (a request a handler sends as its next
\* step is not held back)
MayIssue == Len(reqs) < MaxRequests


\* ------------------------------------------------------------------------
\* Requests
\* ------------------------------------------------------------------------

\* no Comment in a response
NoComment == [id |-> 0, comment |-> <<>>, created_at |-> 0]

NoBody == [ text        |-> NullText,
            refinements |-> <<>>,
            doc         |-> NoDoc,
            comment     |-> NoComment ]

\* a request as the client hands it to fetch(); origin "ui" is the app.js
\* client, "viewer" the bundle's pages, "editor" the RefinementEditor,
\* "api" any other caller of the REST interface
NewReq(op, origin, target, prompt, text, pages) ==
    [ op      |-> op,
      origin  |-> origin,
      target  |-> target,     \* document id or section id of the path
      prompt  |-> prompt,     \* body.prompt (refine, generate), body.title
      text    |-> text,       \* body.current_text
      pages   |-> pages,      \* body.pages
      after   |-> 0,          \* the request whose handler sent this one as
                              \* its next step (0: the user's action did)
      phase   |-> "sent",
      out     |-> NullText,   \* what the provider returned to this request
      rid     |-> 0,          \* id of the Refinement row the request created
      page    |-> 0,          \* generate: index of the next page
      alone   |-> TRUE,       \* no other refine/regenerate of the same
                              \* section was being served at the same time
      seen    |-> <<>>,       \* sendComment: section.comments as the handler's
                              \* closure holds them
      ok      |-> FALSE,      \* response status is 2xx
      err     |-> "",         \* error class of a non-2xx response
      body    |-> NoBody ]    \* JSON body of a 2xx response

RefineOps == {"refine", "regenerate"}

\* the server is still working on request i (no response written yet)
Serving(i) == reqs[i].phase \notin {"responded", "done"}

\* refine/regenerate requests of section s the server is working on
ServingOn(s) ==
    { i \in DOMAIN reqs : reqs[i].op \in RefineOps /\ reqs[i].target = s
                          /\ Serving(i) }

\* issue a refine/regenerate request: it and the requests it overlaps lose
\* the mark alone
IssueRefineOp(r) ==
    LET busy == ServingOn(r.target)
        marked == [ i \in DOMAIN reqs |->
                      IF i \in busy THEN [reqs[i] EXCEPT !.alone = FALSE]
                      ELSE reqs[i] ]
    IN  reqs' = Append(marked, [r EXCEPT !.alone = (busy = {})])

Respond(i, ok, err, body) ==
    reqs' = [reqs EXCEPT ![i] = [@ EXCEPT !.phase = "responded",
                                          !.ok = ok,
                                          !.err = err,
                                          !.body = body]]

\* ------------------------------------------------------------------------
\* Section Refinement Service (spec.md 4.2)
\* ------------------------------------------------------------------------

\* the instruction a refine/regenerate request hands to the provider and
\* records in its Refinement
Instruction(r) == IF r.op = "refine" THEN r.prompt ELSE RegenInstruction

\* refine: prompt must be non-empty
ValidPrompt(p) == p # <<>>

\* the lookup of the section left out: only the prompt is validated
RefineRefusalsUnchecked(r) ==
    IF r.op = "refine" /\ ~ValidPrompt(r.prompt)
    THEN {"ValidationError"} ELSE {}

\* the errors that refuse a refine/regenerate request before the provider is
\* called: ValidationError for an empty prompt, NotFoundError for an unknown
\* section id (when both apply, either)
RefineRefusals(r) ==
    (IF r.op = "refine" /\ ~ValidPrompt(r.prompt)
     THEN {"ValidationError"} ELSE {})
    \cup (IF r.target \notin StoredSectionIds THEN {"NotFoundError"} ELSE {})

\* the request arrives: validate, then call the AI Text Provider
ServeRefineStart(i) ==
    /\ reqs[i].op \in RefineOps
    /\ reqs[i].phase = "sent"
    /\ IF RefineRefusals(reqs[i]) # {}
       THEN /\ \E e \in RefineRefusals(reqs[i]) :
                   Respond(i, FALSE, e, NoBody)
            /\ UNCHANGED providerCalls
       ELSE /\ reqs' = [reqs EXCEPT ![i].phase = "provider"]
            /\ providerCalls' = providerCalls + 1
    /\ UNCHANGED << store, now, client >>

\* the Refinement row a request persists
RefinementRow(r, out, t) ==
    [ id           |-> Len(refinements) + 1,
      section_id   |-> r.target,
      prompt       |-> Instruction(r),
      revised_text |-> out,
      created_at   |-> t ]

\* one row per section: the new row written over the newest row of its
\* section
InsertRefinementUpsert(row) ==
    LET same == { k \in DOMAIN refinements :
                    refinements[k].section_id = row.section_id }
    IN  refinements' =
            IF same = {}
            THEN Append(refinements, row)
            ELSE [refinements EXCEPT
                     ![CHOOSE k \in same : \A j \in same : j <= k] = row]

\* the new row put in front of the table
InsertRefinementFirst(row) == refinements' = <<row>> \o refinements

\* the new row replacing the rows the table held
InsertRefinementPruning(row) == refinements' = <<row>>

\* INSERT INTO refinements
InsertRefinement(row) == refinements' = Append(refinements, row)

\* the UPDATE left out
UpdateSectionTextSkipped(s, t) == sections' = sections

\* UPDATE sections SET text = t WHERE id = s
UpdateSectionText(s, t) ==
    sections' = [ k \in DOMAIN sections |->
                    IF sections[k].id = s
                    THEN [sections[k] EXCEPT !.text = t]
                    ELSE sections[k] ]

\* the value created_at = now takes at the next write (the clock is
\* logical: one tick per timestamped write)
ClockValues == { now + 1 }

\* the provider returns out: persist the new Refinement row
RefineProviderOk(i, out) ==
    /\ reqs[i].op \in RefineOps
    /\ reqs[i].phase = "provider"
    /\ \E t \in ClockValues :
         /\ now' = t
         /\ InsertRefinement(RefinementRow(reqs[i], out, t))
    /\ reqs' = [reqs EXCEPT ![i] = [@ EXCEPT !.phase = "inserted",
                                             !.out = out,
                                             !.rid = Len(refinements) + 1]]
    /\ UNCHANGED << documents, sections, comments, feedback,
                    providerCalls, client >>

\* the provider fails or times out: nothing is written
RefineProviderFail(i) ==
    /\ reqs[i].op \in RefineOps
    /\ reqs[i].phase = "provider"
    /\ Respond(i, FALSE, "RefinementError", NoBody)
    /\ UNCHANGED << store, now, providerCalls, client >>

\* overwrite Section.text with revisedText
RefineWriteText(i) ==
    /\ reqs[i].op \in RefineOps
    /\ reqs[i].phase = "inserted"
    /\ UpdateSectionText(reqs[i].target, reqs[i].out)
    /\ reqs' = [reqs EXCEPT ![i].phase = "updated"]
    /\ UNCHANGED << documents, refinements, comments, feedback, now,
                    providerCalls, client >>

\* the body of a successful refine/regenerate response
RefineBody(r) ==
    [ text        |-> r.out,
      refinements |-> History(r.target),
      doc         |-> NoDoc,
      comment     |-> NoComment ]

\* read the history back and answer {revised_text, refinements}
RefineRespond(i) ==
    /\ reqs[i].op \in RefineOps
    /\ reqs[i].phase = "updated"
    /\ Respond(i, TRUE, "", RefineBody(reqs[i]))
    /\ UNCHANGED << store, now, providerCalls, client >>


\* ------------------------------------------------------------------------
\* Document Service (spec.md 4.1)
\* ------------------------------------------------------------------------

\* createDocument: title must be non-empty
ValidTitle(t) == t # <<>>

\* INSERT INTO documents
DocumentRow(title) == [id |-> Len(documents) + 1, title |-> title]

ServeCreate(i) ==
    /\ reqs[i].op = "create"
    /\ reqs[i].phase = "sent"
    /\ IF ~ValidTitle(reqs[i].prompt)
       THEN /\ Respond(i, FALSE, "ValidationError", NoBody)
            /\ UNCHANGED documents
       ELSE /\ documents' = Append(documents, DocumentRow(reqs[i].prompt))
            /\ Respond(i, TRUE, "",
                       [NoBody EXCEPT !.doc = [id |-> Len(documents) + 1,
                                               sections |-> <<>>]])
    /\ UNCHANGED << sections, refinements, comments, feedback, now,
                    providerCalls, client >>

\* generateDocument: pageCount must be positive and the prompt non-empty
ValidGenerate(r) == r.pages > 0 /\ r.prompt # <<>>

\* the errors that refuse a generate request before the first provider
\* call: GenerationError for a bad page count or prompt, NotFoundError for an
\* unknown document id (when both apply, either)
GenerateRefusals(r) ==
    (IF ~ValidGenerate(r) THEN {"GenerationError"} ELSE {})
    \cup (IF r.target \notin StoredDocumentIds THEN {"NotFoundError"} ELSE {})

ServeGenerateStart(i) ==
    /\ reqs[i].op = "generate"
    /\ reqs[i].phase = "sent"
    /\ IF GenerateRefusals(reqs[i]) # {}
       THEN \E e \in GenerateRefusals(reqs[i]) : Respond(i, FALSE, e, NoBody)
       ELSE reqs' = [reqs EXCEPT ![i].phase = "generating"]
    /\ UNCHANGED << store, now, providerCalls, client >>

\* the Section row generateDocument creates for page index
SectionRow(d, index, out) ==
    [ id            |-> Len(sections) + 1,
      document_id   |-> d,
      position      |-> index,
      text          |-> out,
      last_feedback |-> NullFeedback ]

\* INSERT INTO sections
InsertSection(row) == sections' = Append(sections, row)

\* one page: the provider returns out, the Section of the page is created
GeneratePageOk(i, out) ==
    /\ reqs[i].op = "generate"
    /\ reqs[i].phase = "generating"
    /\ reqs[i].page < reqs[i].pages
    /\ providerCalls' = providerCalls + 1
    /\ InsertSection(SectionRow(reqs[i].target, reqs[i].page, out))
    /\ reqs' = [reqs EXCEPT ![i].page = @ + 1]
    /\ UNCHANGED << documents, refinements, comments, feedback, now,
                    client >>

\* the provider fails on a page: the call reports the error, the Sections
\* created so far stay
GeneratePageFail(i) ==
    /\ reqs[i].op = "generate"
    /\ reqs[i].phase = "generating"
    /\ reqs[i].page < reqs[i].pages
    /\ providerCalls' = providerCalls + 1
    /\ Respond(i, FALSE, "GenerationError", NoBody)
    /\ UNCHANGED << store, now, client >>

\* all pages written: answer the document with its sections
GenerateRespond(i) ==
    /\ reqs[i].op = "generate"
    /\ reqs[i].phase = "generating"
    /\ reqs[i].page = reqs[i].pages
    /\ Respond(i, TRUE, "", [NoBody EXCEPT !.doc = DocumentJson(reqs[i].target)])
    /\ UNCHANGED << store, now, providerCalls, client >>


\* ------------------------------------------------------------------------
\* The app.js client: Dashboard, ProjectConfig, DocumentView, SectionCard
\* ------------------------------------------------------------------------

\* titles the user can give to window.prompt("Project title?")
TitleInputs == { <<>>, <<"T">> }

\* values the user can leave in the Pages input (Number(pages))
PageInputs == 0 .. MaxPages

\* the Pages input of a one-page document
OnePage == { 0, 1 }

\* prompts of the other callers of the REST interface
ApiPrompts == { <<>>, <<"b">> }

\* ids of the section cards DocumentView renders
CardIds == { currentDoc.sections[k].id : k \in DOMAIN currentDoc.sections }

\* the section a card was rendered with
Card(s) ==
    currentDoc.sections[CHOOSE k \in DOMAIN currentDoc.sections :
                            currentDoc.sections[k].id = s]

Send(r) == reqs' = Append(reqs, r)

\* Dashboard.createNew: no title, no request
UiCreate(title) ==
    /\ currentDoc = NoDoc
    /\ MayIssue
    /\ IF ~Truthy(title)
       THEN UNCHANGED reqs
       ELSE Send(NewReq("create", "ui", 0, title, NullText, 0))
    /\ UNCHANGED << store, now, providerCalls, client >>

\* createNew never calling onCreateDoc: the created document is not shown
UiCreateReceiveIgnored(i) ==
    /\ reqs[i].op = "create" /\ reqs[i].origin = "ui"
    /\ reqs[i].phase = "responded"
    /\ reqs' = [reqs EXCEPT ![i].phase = "done"]
    /\ UNCHANGED << store, now, providerCalls, client >>

\* createNew after the response; App.handleCreatedDoc
UiCreateReceive(i) ==
    /\ reqs[i].op = "create" /\ reqs[i].origin = "ui"
    /\ reqs[i].phase = "responded"
    /\ reqs' = [reqs EXCEPT ![i].phase = "done"]
    /\ currentDoc' = IF reqs[i].ok
                     THEN [id |-> reqs[i].body.doc.id, sections |-> <<>>]
                     ELSE currentDoc
    /\ UNCHANGED << others, downloads,
                    store, now, providerCalls, loadingRefine, loadingRegen,
                    genLoading,
                    viewer, editor >>

\* handleGenerate testing !prompt in place of !prompt.trim()
UiGenerateUntrimmed(p, n) ==
    /\ currentDoc # NoDoc
    /\ ~genLoading
    /\ MayIssue
    /\ IF ~Truthy(p)
       THEN UNCHANGED << reqs, genLoading >>
       ELSE /\ genLoading' = TRUE
            /\ Send(NewReq("generate", "ui", currentDoc.id, p, NullText,
                           PagesOrOne(n)))
    /\ UNCHANGED << others, downloads,
                    store, now, providerCalls, currentDoc, loadingRefine,
                    loadingRegen, viewer, editor >>

\* ProjectConfig.handleGenerate with prompt p and n in the Pages input
UiGenerate(p, n) ==
    /\ currentDoc # NoDoc
    /\ ~genLoading
    /\ MayIssue
    /\ IF ~Truthy(Trim(p))
       THEN UNCHANGED << reqs, genLoading >>
       ELSE /\ genLoading' = TRUE
            /\ Send(NewReq("generate", "ui", currentDoc.id, p, NullText,
                           PagesOrOne(n)))
    /\ UNCHANGED << others, downloads,
                    store, now, providerCalls, currentDoc, loadingRefine,
                    loadingRegen,
                    viewer, editor >>

\* handleGenerate handing the body to onUpdated whatever res.ok is
UiGenerateReceiveUnchecked(i) ==
    /\ reqs[i].op = "generate" /\ reqs[i].origin = "ui"
    /\ reqs[i].phase = "responded"
    /\ reqs' = [reqs EXCEPT ![i].phase = "done"]
    /\ currentDoc' = reqs[i].body.doc
    /\ genLoading' = FALSE
    /\ UNCHANGED << others, downloads,
                    store, now, providerCalls, loadingRefine, loadingRegen,
                    viewer, editor >>

\* handleGenerate after the response; App.handleDocUpdated
UiGenerateReceive(i) ==
    /\ reqs[i].op = "generate" /\ reqs[i].origin = "ui"
    /\ reqs[i].phase = "responded"
    /\ reqs' = [reqs EXCEPT ![i].phase = "done"]
    /\ currentDoc' = IF reqs[i].ok THEN reqs[i].body.doc ELSE currentDoc
    /\ genLoading' = FALSE
    /\ UNCHANGED << others, downloads,
                    store, now, providerCalls, loadingRefine, loadingRegen,
                    viewer, editor >>

\* updateSection handed {text} alone: the refinements of the response are
\* dropped
UpdateSectionTextOnly(doc, s, text, refs) ==
    [ doc EXCEPT !.sections =
        [ k \in DOMAIN doc.sections |->
            IF doc.sections[k].id = s
            THEN [doc.sections[k] EXCEPT !.text = text]
            ELSE doc.sections[k] ] ]

\* updateSection with the spread reversed, { ...changes, ...s }: the old
\* fields of the section win
UpdateSectionStale(doc, s, text, refs) == doc

\* DocumentView.updateSection(sectionId, {text, refinements})
UpdateSection(doc, s, text, refs) ==
    [ doc EXCEPT !.sections =
        [ k \in DOMAIN doc.sections |->
            IF doc.sections[k].id = s
            THEN [doc.sections[k] EXCEPT !.text = text, !.refinements = refs]
            ELSE doc.sections[k] ] ]

\* SectionCard.refine sends the request unless the prompt is blank
RefineSends(p) == Truthy(Trim(p))

\* SectionCard.refine with p typed into the prompt box of card s
UiRefine(s, p) ==
    /\ s \in CardIds
    /\ ~loadingRefine[s]
    /\ MayIssue
    /\ IF ~RefineSends(p)
       THEN UNCHANGED << reqs, loadingRefine >>
       ELSE /\ loadingRefine' = [loadingRefine EXCEPT ![s] = TRUE]
            /\ IssueRefineOp(NewReq("refine", "ui", s, p, Card(s).text, 0))
    /\ UNCHANGED << others, downloads,
                    store, now, providerCalls, currentDoc, loadingRegen,
                    genLoading,
                    viewer, editor >>

\* the response handler without its test of res.ok
ApplyRefineResponseUnchecked(doc, r) ==
    UpdateSection(doc, r.target, r.body.text, r.body.refinements)

\* what SectionCard.refine / regenerate make of a response
ApplyRefineResponse(doc, r) ==
    IF r.ok
    THEN UpdateSection(doc, r.target, r.body.text, r.body.refinements)
    ELSE doc

\* refine sending the request once more when the response reports a failure
\* of the provider
UiRefineReceiveRetrying(i) ==
    /\ reqs[i].op = "refine" /\ reqs[i].origin = "ui"
    /\ reqs[i].phase = "responded"
    /\ IF reqs[i].err = "RefinementError"
       THEN /\ reqs' = Append([reqs EXCEPT ![i].phase = "done"],
                              [NewReq("refine", "ui", reqs[i].target,
                                      reqs[i].prompt, reqs[i].text, 0)
                                  EXCEPT !.after = i])
            /\ UNCHANGED loadingRefine
       ELSE /\ reqs' = [reqs EXCEPT ![i].phase = "done"]
            /\ loadingRefine' = [loadingRefine EXCEPT ![reqs[i].target] = FALSE]
    /\ currentDoc' = ApplyRefineResponse(currentDoc, reqs[i])
    /\ UNCHANGED << others, downloads, store, now, providerCalls, loadingRegen,
                    genLoading, viewer, editor >>

\* SectionCard.refine after the response
UiRefineReceive(i) ==
    /\ reqs[i].op = "refine" /\ reqs[i].origin = "ui"
    /\ reqs[i].phase = "responded"
    /\ reqs' = [reqs EXCEPT ![i].phase = "done"]
    /\ currentDoc' = ApplyRefineResponse(currentDoc, reqs[i])
    /\ loadingRefine' = [loadingRefine EXCEPT ![reqs[i].target] = FALSE]
    /\ UNCHANGED << others, downloads,
                    store, now, providerCalls, loadingRegen, genLoading,
                    viewer, editor >>

\* regenerate sending whatever the answer to the dialog is
UiRegenerateUnconfirmed(s, confirmed) ==
    /\ s \in CardIds
    /\ ~loadingRegen[s]
    /\ MayIssue
    /\ loadingRegen' = [loadingRegen EXCEPT ![s] = TRUE]
    /\ IssueRefineOp(NewReq("regenerate", "ui", s, <<>>, NullText, 0))
    /\ cancelled' = ~confirmed
    /\ UNCHANGED << errors, autosave, loggedIn, downloads, store, now, providerCalls, currentDoc,
                    loadingRefine, genLoading, viewer, editor >>

\* regenerate held back while a refine of the same card is in flight
UiRegenerateGuarded(s, confirmed) ==
    /\ s \in CardIds
    /\ ~loadingRegen[s]
    /\ ~loadingRefine[s]
    /\ MayIssue
    /\ IF ~confirmed
       THEN UNCHANGED << reqs, loadingRegen >>
       ELSE /\ loadingRegen' = [loadingRegen EXCEPT ![s] = TRUE]
            /\ IssueRefineOp(NewReq("regenerate", "ui", s, <<>>, NullText, 0))
    /\ cancelled' = ~confirmed
    /\ UNCHANGED << errors, autosave, loggedIn, downloads,
                    store, now, providerCalls, currentDoc, loadingRefine,
                    genLoading, viewer, editor >>

\* SectionCard.regenerate; confirmed is the answer to the confirm() dialog
UiRegenerate(s, confirmed) ==
    /\ s \in CardIds
    /\ ~loadingRegen[s]
    /\ MayIssue
    /\ IF ~confirmed
       THEN UNCHANGED << reqs, loadingRegen >>
       ELSE /\ loadingRegen' = [loadingRegen EXCEPT ![s] = TRUE]
            /\ IssueRefineOp(NewReq("regenerate", "ui", s, <<>>, NullText, 0))
    /\ cancelled' = ~confirmed
    /\ UNCHANGED << errors, autosave, loggedIn, downloads,
                    store, now, providerCalls, currentDoc, loadingRefine,
                    genLoading,
                    viewer, editor >>

\* regenerate reading data.revised_text, which its response does not carry,
\* in place of data.text
UiRegenerateReceiveWrongKey(i) ==
    /\ reqs[i].op = "regenerate" /\ reqs[i].origin = "ui"
    /\ reqs[i].phase = "responded"
    /\ reqs' = [reqs EXCEPT ![i].phase = "done"]
    /\ currentDoc' = IF reqs[i].ok
                     THEN UpdateSection(currentDoc, reqs[i].target, NullText,
                                        reqs[i].body.refinements)
                     ELSE currentDoc
    /\ loadingRegen' = [loadingRegen EXCEPT ![reqs[i].target] = FALSE]
    /\ UNCHANGED << others, downloads,
                    store, now, providerCalls, loadingRefine, genLoading,
                    viewer, editor >>

\* SectionCard.regenerate after the response
UiRegenerateReceive(i) ==
    /\ reqs[i].op = "regenerate" /\ reqs[i].origin = "ui"
    /\ reqs[i].phase = "responded"
    /\ reqs' = [reqs EXCEPT ![i].phase = "done"]
    /\ currentDoc' = ApplyRefineResponse(currentDoc, reqs[i])
    /\ loadingRegen' = [loadingRegen EXCEPT ![reqs[i].target] = FALSE]
    /\ UNCHANGED << others, downloads,
                    store, now, providerCalls, loadingRefine, genLoading,
                    viewer, editor >>

\* the buttons of the DownloadBar
DownloadFormats == { "pptx", "docx", "pdf" }

\* DownloadBar.download(format) for the document shown
UiDownload(f) ==
    /\ currentDoc # NoDoc
    /\ MayIssue
    /\ Send(NewReq("export", "ui", currentDoc.id, <<>>, f, 0))
    /\ UNCHANGED << store, now, providerCalls, client >>

\* the extension of the downloaded file
Extension(f) ==
    IF f = "pptx" THEN "pptx" ELSE IF f = "pdf" THEN "pdf" ELSE "docx"

\* the file a.click() hands to the browser
DownloadedFile(r) ==
    [ document |-> r.target, ext |-> Extension(r.text), bytes |-> r.body.doc ]

\* download without its test of res.ok: the body of any response is saved
UiDownloadReceiveUnchecked(i) ==
    /\ reqs[i].op = "export" /\ reqs[i].origin = "ui"
    /\ reqs[i].phase = "responded"
    /\ reqs' = [reqs EXCEPT ![i].phase = "done"]
    /\ downloads' = Append(downloads, DownloadedFile(reqs[i]))
    /\ UNCHANGED << store, now, providerCalls, currentDoc, loadingRefine,
                    loadingRegen, genLoading, viewer, editor, others >>

\* DownloadBar.download after the response: nothing is downloaded unless
\* res.ok
UiDownloadReceive(i) ==
    /\ reqs[i].op = "export" /\ reqs[i].origin = "ui"
    /\ reqs[i].phase = "responded"
    /\ reqs' = [reqs EXCEPT ![i].phase = "done"]
    /\ downloads' = IF reqs[i].ok
                    THEN Append(downloads, DownloadedFile(reqs[i]))
                    ELSE downloads
    /\ UNCHANGED << store, now, providerCalls, currentDoc, loadingRefine,
                    loadingRegen, genLoading, viewer, editor, others >>

\* "Back to projects": setCurrentDoc(null)
UiBack ==
    /\ currentDoc # NoDoc
    /\ currentDoc' = NoDoc
    /\ UNCHANGED << store, now, providerCalls, reqs, loadingRefine,
                    loadingRegen, genLoading, viewer, editor, downloads,
                    others >>

\* App.handleLogout: clearUser(); setUser(null); setCurrentDoc(null)
UiLogout ==
    /\ loggedIn
    /\ loggedIn' = FALSE
    /\ currentDoc' = NoDoc
    /\ UNCHANGED << store, now, providerCalls, reqs, loadingRefine,
                    loadingRegen, genLoading, viewer, editor, downloads,
                    errors, cancelled, autosave >>

\* App.handleLogin(u): setUser(u), after the Login page was answered
UiLogin ==
    /\ ~loggedIn
    /\ loggedIn' = TRUE
    /\ UNCHANGED << store, now, providerCalls, reqs, currentDoc,
                    loadingRefine, loadingRegen, genLoading, viewer, editor,
                    downloads, errors, cancelled, autosave >>

\* App.handleSelectDoc(docMeta) for a document of the Dashboard's list
UiSelectDoc(d) ==
    /\ currentDoc = NoDoc
    /\ d \in StoredDocumentIds
    /\ MayIssue
    /\ Send(NewReq("get", "ui", d, <<>>, NullText, 0))
    /\ UNCHANGED << store, now, providerCalls, client >>

\* .then((r) => r.json()).then((d) => setCurrentDoc(d))
UiSelectReceive(i) ==
    /\ reqs[i].op = "get" /\ reqs[i].origin = "ui"
    /\ reqs[i].phase = "responded"
    /\ reqs' = [reqs EXCEPT ![i].phase = "done"]
    /\ currentDoc' = reqs[i].body.doc
    /\ UNCHANGED << store, now, providerCalls, loadingRefine, loadingRegen,
                    genLoading, viewer, editor, downloads,
                    others >>

\* the value SectionCard.sendFeedback shows for liked
LikedValue(liked) == IF liked THEN 1 ELSE 0

\* SectionCard.sendFeedback(liked) on card s
UiFeedback(s, liked) ==
    /\ s \in CardIds
    /\ MayIssue
    /\ Send(NewReq("feedback", "ui", s, <<>>, NullText, LikedValue(liked)))
    /\ UNCHANGED << store, now, providerCalls, client >>

\* updateSection handed the opposite of the card's value
SetCardFeedbackToggled(doc, s, v) ==
    [ doc EXCEPT !.sections =
        [ k \in DOMAIN doc.sections |->
            IF doc.sections[k].id = s
            THEN [doc.sections[k] EXCEPT !.last_feedback =
                      IF doc.sections[k].last_feedback = 1 THEN 0 ELSE 1]
            ELSE doc.sections[k] ] ]

\* DocumentView.updateSection(sectionId, {last_feedback})
SetCardFeedback(doc, s, v) ==
    [ doc EXCEPT !.sections =
        [ k \in DOMAIN doc.sections |->
            IF doc.sections[k].id = s
            THEN [doc.sections[k] EXCEPT !.last_feedback = v]
            ELSE doc.sections[k] ] ]

\* SectionCard.sendFeedback after the response: the status is not read
UiFeedbackReceive(i) ==
    /\ reqs[i].op = "feedback" /\ reqs[i].origin = "ui"
    /\ reqs[i].phase = "responded"
    /\ reqs' = [reqs EXCEPT ![i].phase = "done"]
    /\ currentDoc' = SetCardFeedback(currentDoc, reqs[i].target, reqs[i].pages)
    /\ UNCHANGED << others, downloads,
                    store, now, providerCalls, loadingRefine, loadingRegen,
                    genLoading, viewer, editor >>

\* what the user types into a comment box
TypedComments == { <<>>, <<" ">>, <<"c", " ">> }

\* the comment submissions of card s whose response has not been handled
CommentsInFlight(s) ==
    { k \in DOMAIN reqs :
        /\ reqs[k].op = "comment" /\ reqs[k].origin = "ui"
        /\ reqs[k].target = s
        /\ reqs[k].phase # "done" }

\* sendComment sending whatever the box holds
UiCommentUnguarded(s, c) ==
    /\ s \in CardIds
    /\ MayIssue
    /\ Send([NewReq("comment", "ui", s, c, NullText, 0)
                EXCEPT !.seen = Card(s).comments,
                       !.alone = CommentsInFlight(s) = {}])
    /\ UNCHANGED << store, now, providerCalls, client >>

\* SectionCard.sendComment with c in the comment box of card s: nothing is
\* sent for a blank comment, the comment is sent as typed otherwise
UiComment(s, c) ==
    /\ s \in CardIds
    /\ MayIssue
    /\ IF ~Truthy(Trim(c))
       THEN UNCHANGED reqs
       ELSE Send([NewReq("comment", "ui", s, c, NullText, 0)
                    EXCEPT !.seen = Card(s).comments,
                           !.alone = CommentsInFlight(s) = {}])
    /\ UNCHANGED << store, now, providerCalls, client >>

\* DocumentView.updateSection(sectionId, {comments})
SetCardComments(doc, s, cs) ==
    [ doc EXCEPT !.sections =
        [ k \in DOMAIN doc.sections |->
            IF doc.sections[k].id = s
            THEN [doc.sections[k] EXCEPT !.comments = cs]
            ELSE doc.sections[k] ] ]

\* SectionCard.sendComment after the response
UiCommentReceive(i) ==
    /\ reqs[i].op = "comment" /\ reqs[i].origin = "ui"
    /\ reqs[i].phase = "responded"
    /\ reqs' = [reqs EXCEPT ![i].phase = "done"]
    /\ currentDoc' = IF reqs[i].ok
                     THEN SetCardComments(currentDoc, reqs[i].target,
                              Append(reqs[i].seen, reqs[i].body.comment))
                     ELSE currentDoc
    /\ UNCHANGED << others, downloads,
                    store, now, providerCalls, loadingRefine, loadingRegen,
                    genLoading, viewer, editor >>

\* ------------------------------------------------------------------------
\* Other callers of the REST interface (spec.md 6)
\* ------------------------------------------------------------------------

StoredText(s) ==
    sections[CHOOSE k \in DOMAIN sections : sections[k].id = s].text

\* POST /sections/{s}/refine {prompt, current_text} by a caller that has
\* just read the section
ApiRefine(s, p) ==
    /\ s \in StoredSectionIds
    /\ MayIssue
    /\ IssueRefineOp(NewReq("refine", "api", s, p, StoredText(s), 0))
    /\ UNCHANGED << store, now, providerCalls, client >>

\* POST /sections/{s}/feedback {liked}
ApiFeedback(s, liked) ==
    /\ s \in StoredSectionIds
    /\ MayIssue
    /\ Send(NewReq("feedback", "api", s, <<>>, NullText, IF liked THEN 1 ELSE 0))
    /\ UNCHANGED << store, now, providerCalls, client >>

\* comment texts of the other callers
CommentInputs == { <<>>, <<"c">> }

\* POST /sections/{s}/comment {comment}
ApiComment(s, c) ==
    /\ s \in StoredSectionIds
    /\ MayIssue
    /\ Send(NewReq("comment", "api", s, c, NullText, 0))
    /\ UNCHANGED << store, now, providerCalls, client >>

\* POST /documents {title}
ApiCreate(title) ==
    /\ MayIssue
    /\ Send(NewReq("create", "api", 0, title, NullText, 0))
    /\ UNCHANGED << store, now, providerCalls, client >>

\* page counts of the other callers: negative, zero, one
ApiPageCounts == { 0 - 1 } \cup OnePage


\* POST /documents/{d}/generate {prompt, pages}
ApiGenerate(d, p, n) ==
    /\ d \in StoredDocumentIds
    /\ MayIssue
    /\ Send(NewReq("generate", "api", d, p, NullText, n))
    /\ UNCHANGED << store, now, providerCalls, client >>

\* GET /documents/{d}
ApiGet(d) ==
    /\ d \in StoredDocumentIds
    /\ MayIssue
    /\ Send(NewReq("get", "api", d, <<>>, NullText, 0))
    /\ UNCHANGED << store, now, providerCalls, client >>

\* the section ids requested: the id of the first section and an id no
\* section can have
RequestedSectionIds == { 1, MaxRequests * MaxPages + 1 }

\* the operations on a section
SectionOps == { "refine", "regenerate", "feedback", "comment" }

\* POST /sections/{s}/{op} with any id and a body the operation accepts: a
\* non-empty prompt or comment, liked = true
ApiOnSection(op, s) ==
    LET r == NewReq(op, "api", s,
                    IF op \in {"refine", "comment"} THEN <<"b">> ELSE <<>>,
                    NullText,
                    IF op = "feedback" THEN LikedValue(TRUE) ELSE 0)
    IN  /\ MayIssue
        /\ IF op \in RefineOps THEN IssueRefineOp(r) ELSE Send(r)
        /\ UNCHANGED << store, now, providerCalls, client >>

\* POST /documents/{d}/generate with any id, a prompt and one page
ApiGenerateAny(d) ==
    /\ MayIssue
    /\ Send(NewReq("generate", "api", d, <<"b">>, NullText, 1))
    /\ UNCHANGED << store, now, providerCalls, client >>

\* the format strings of an export request
FormatInputs == { "docx", "txt" }

\* GET /documents/{d}/export?format=f with any id
ApiExportAny(d, f) ==
    /\ MayIssue
    /\ Send(NewReq("export", "api", d, <<>>, f, 0))
    /\ UNCHANGED << store, now, providerCalls, client >>

\* GET /documents/{d}/export?format=f
ApiExport(d, f) ==
    /\ d \in StoredDocumentIds
    /\ MayIssue
    /\ Send(NewReq("export", "api", d, <<>>, f, 0))
    /\ UNCHANGED << store, now, providerCalls, client >>

\* ------------------------------------------------------------------------
\* The bundle's pages (dist/app.bundle.js): CreateProjectForm, ProjectViewer
\* ------------------------------------------------------------------------

\* no local edit of a section (the key is absent from the object)
NoEdit == "undefined"

\* texts the user can type into a section's textarea
EditInputs == { "", "e" }

\* useState(3): the Pages input of CreateProjectForm as constructed
DefaultPages == 3

\* CreateProjectForm as constructed
FormInit == [prompt |-> <<>>, pages |-> DefaultPages, loading |-> FALSE]

\* title || `Project - ${new Date().toLocaleString()}`
TitleOrDefault(title) == IF Truthy(title) THEN title ELSE <<"P">>

\* the handler of request i sends request r as its next step
SendNext(i, r) ==
    reqs' = Append([reqs EXCEPT ![i].phase = "done"], [r EXCEPT !.after = i])

\* CreateProjectForm.create with the title, the prompt p and the page count
\* n typed into the form: POST /api/documents
FormCreate(title, p, n) ==
    /\ pvId = 0
    /\ ~form.loading
    /\ MayIssue
    /\ IF ~Truthy(Trim(p))
       THEN UNCHANGED << reqs, form >>
       ELSE /\ form' = [prompt |-> p, pages |-> n, loading |-> TRUE]
            /\ Send(NewReq("create", "viewer", 0, TitleOrDefault(title),
                           NullText, 0))
    /\ UNCHANGED << others, downloads,
                    store, now, providerCalls, currentDoc, loadingRefine,
                    loadingRegen, genLoading, pvId, pvDoc, pvLoading, editing,
                    editor >>

\* create after the first response: POST /api/documents/{doc.id}/generate
FormCreateReceive(i) ==
    /\ reqs[i].op = "create" /\ reqs[i].origin = "viewer"
    /\ reqs[i].phase = "responded"
    /\ SendNext(i, NewReq("generate", "viewer", reqs[i].body.doc.id,
                          form.prompt, NullText, form.pages))
    /\ UNCHANGED << store, now, providerCalls, client >>

\* GET /api/document/{id}, sent by ProjectViewer.load
LoadReq(d) == NewReq("get", "viewer", d, <<>>, NullText, 0)

\* create after the second response: window.location.href = project.html,
\* where ProjectViewer mounts and loads the document
FormGenerateReceive(i) ==
    /\ reqs[i].op = "generate" /\ reqs[i].origin = "viewer"
    /\ reqs[i].phase = "responded"
    /\ form' = FormInit
    /\ pvId' = reqs[i].target
    /\ SendNext(i, LoadReq(reqs[i].target))
    /\ UNCHANGED << others, downloads,
                    store, now, providerCalls, currentDoc, loadingRefine,
                    loadingRegen, genLoading, pvDoc, pvLoading, editing,
                    editor >>

\* ProjectViewer.load after the response: setDoc(await res.json()); when
\* refineSection awaited the load, it goes on to setLoading(false)
PvLoadReceive(i) ==
    /\ reqs[i].op = "get" /\ reqs[i].origin = "viewer"
    /\ reqs[i].phase = "responded"
    /\ reqs' = [reqs EXCEPT ![i].phase = "done"]
    /\ pvDoc' = reqs[i].body.doc
    /\ pvLoading' = IF reqs[reqs[i].after].op = "refine" THEN FALSE
                    ELSE pvLoading
    /\ UNCHANGED << others, downloads,
                    store, now, providerCalls, currentDoc, loadingRefine,
                    loadingRegen, genLoading, form, pvId, editing, editor >>

\* the textarea of section s: setEditing({...editing, [s.id]: t})
PvEdit(s, t) ==
    /\ s \in IdsOf(pvDoc)
    /\ editing[s] # t
    /\ editing' = [editing EXCEPT ![s] = t]
    /\ UNCHANGED << others, downloads, store, now, providerCalls, reqs, currentDoc,
                    loadingRefine, loadingRegen, genLoading, form, pvId,
                    pvDoc, pvLoading, editor >>

\* text || ""
TextOrEmpty(t) == IF t = NullText THEN "" ELSE t

\* curText of ProjectViewer.refineSection
PvCurrentText(s) ==
    IF editing[s] # NoEdit THEN editing[s]
    ELSE TextOrEmpty(Find(pvDoc, s).text)

\* ProjectViewer.refineSection sends the request unless !prompt
PvRefineSends(p) == Truthy(p)

\* ProjectViewer.refineSection with p given to window.prompt (Cancel gives
\* null, which is falsy as "" is)
PvRefine(s, p) ==
    /\ s \in IdsOf(pvDoc)
    /\ MayIssue
    /\ IF ~PvRefineSends(p)
       THEN UNCHANGED << reqs, pvLoading >>
       ELSE /\ pvLoading' = TRUE
            /\ IssueRefineOp(NewReq("refine", "viewer", s, p,
                                    PvCurrentText(s), 0))
    /\ UNCHANGED << others, downloads,
                    store, now, providerCalls, currentDoc, loadingRefine,
                    loadingRegen, genLoading, form, pvId, pvDoc, editing,
                    editor >>

\* refineSection after the response: await load()
PvRefineReceive(i) ==
    /\ reqs[i].op = "refine" /\ reqs[i].origin = "viewer"
    /\ reqs[i].phase = "responded"
    /\ SendNext(i, LoadReq(pvId))
    /\ UNCHANGED << store, now, providerCalls, client >>

\* ------------------------------------------------------------------------
\* RefinementEditor (src/pages/Projects.jsx)
\* ------------------------------------------------------------------------

\* the component mounts with documentId d: fetch(`/api/document/${d}`)
EdMount(d) ==
    /\ edId = 0
    /\ MayIssue
    /\ edId' = d
    /\ Send(NewReq("get", "editor", d, <<>>, NullText, 0))
    /\ UNCHANGED << others, downloads, store, now, providerCalls, currentDoc,
                    loadingRefine, loadingRegen, genLoading, viewer, edDoc,
                    edLoading, localEdits >>

\* the component mounts with the id of a document of the store
EdOpen(d) ==
    /\ edId = 0
    /\ d \in { documents[k].id : k \in DOMAIN documents }
    /\ MayIssue
    /\ edId' = d
    /\ Send(NewReq("get", "editor", d, <<>>, NullText, 0))
    /\ UNCHANGED << others, downloads,
                    store, now, providerCalls, currentDoc, loadingRefine,
                    loadingRegen, genLoading, viewer, edDoc, edLoading,
                    localEdits >>

\* .then((r) => r.json()).then(setDoc)
EdLoadReceive(i) ==
    /\ reqs[i].op = "get" /\ reqs[i].origin = "editor"
    /\ reqs[i].phase = "responded"
    /\ reqs' = [reqs EXCEPT ![i].phase = "done"]
    /\ edDoc' = reqs[i].body.doc
    /\ UNCHANGED << others, downloads,
                    store, now, providerCalls, currentDoc, loadingRefine,
                    loadingRegen, genLoading, viewer, edId, edLoading,
                    localEdits >>

\* applyLocalEdit(sectionId, text)
EdApplyLocalEdit(s, t) ==
    /\ s \in IdsOf(edDoc)
    /\ localEdits[s] # t
    /\ localEdits' = [localEdits EXCEPT ![s] = t]
    /\ UNCHANGED << others, downloads, store, now, providerCalls, reqs, currentDoc,
                    loadingRefine, loadingRegen, genLoading, viewer, edId,
                    edDoc, edLoading >>

\* localEdits[sectionId] || getSectionById(sectionId).text: an edit that
\* is the empty string counts as no edit
EdCurrentTextFalsy(s) ==
    IF localEdits[s] # NoEdit /\ localEdits[s] # ""
    THEN localEdits[s]
    ELSE Find(edDoc, s).text

\* localEdits[sectionId] ?? getSectionById(sectionId).text
EdCurrentText(s) ==
    IF localEdits[s] # NoEdit THEN localEdits[s] ELSE Find(edDoc, s).text

\* the Refine button hands the trimmed input to sendRefinement, which sends
\* the request unless !prompt
EdRefineSends(p) == Truthy(Trim(p))

\* the Refine button of section s with p in its prompt input
EdRefine(s, p) ==
    /\ s \in IdsOf(edDoc)
    /\ ~edLoading
    /\ MayIssue
    /\ IF ~EdRefineSends(p)
       THEN UNCHANGED << reqs, edLoading >>
       ELSE /\ edLoading' = TRUE
            /\ IssueRefineOp(NewReq("refine", "editor", s, Trim(p),
                                    EdCurrentText(s), 0))
    /\ UNCHANGED << others, downloads,
                    store, now, providerCalls, currentDoc, loadingRefine,
                    loadingRegen, genLoading, viewer, edId, edDoc,
                    localEdits >>

\* setDoc of sendRefinement: the section takes the response's revised_text
\* and refinements
EdUpdateSection(doc, s, text, refs) ==
    [ doc EXCEPT !.sections =
        [ k \in DOMAIN doc.sections |->
            IF doc.sections[k].id = s
            THEN [doc.sections[k] EXCEPT !.text = text, !.refinements = refs]
            ELSE doc.sections[k] ] ]

\* sendRefinement after the response, dropping every local edit on success
EdRefineReceiveClearsAll(i) ==
    /\ reqs[i].op = "refine" /\ reqs[i].origin = "editor"
    /\ reqs[i].phase = "responded"
    /\ reqs' = [reqs EXCEPT ![i].phase = "done"]
    /\ IF reqs[i].ok
       THEN /\ edDoc' = EdUpdateSection(edDoc, reqs[i].target,
                                        reqs[i].body.text,
                                        reqs[i].body.refinements)
            /\ localEdits' = [s \in SectionIds |-> NoEdit]
       ELSE UNCHANGED << edDoc, localEdits >>
    /\ edLoading' = FALSE
    /\ UNCHANGED << others, downloads, store, now, providerCalls, currentDoc,
                    loadingRefine, loadingRegen, genLoading, viewer, edId >>

\* sendRefinement after the response
EdRefineReceive(i) ==
    /\ reqs[i].op = "refine" /\ reqs[i].origin = "editor"
    /\ reqs[i].phase = "responded"
    /\ reqs' = [reqs EXCEPT ![i].phase = "done"]
    /\ IF reqs[i].ok
       THEN /\ edDoc' = EdUpdateSection(edDoc, reqs[i].target,
                                        reqs[i].body.text,
                                        reqs[i].body.refinements)
            /\ localEdits' = [localEdits EXCEPT ![reqs[i].target] = NoEdit]
       ELSE UNCHANGED << edDoc, localEdits >>
    /\ edLoading' = FALSE
    /\ UNCHANGED << others, downloads,
                    store, now, providerCalls, currentDoc, loadingRefine,
                    loadingRegen, genLoading, viewer, edId >>

\* sendRefinement when the fetch rejects (the request never reaches the
\* service): the catch block alerts, finally sets loading to false
EdRefineNetworkError(i) ==
    /\ reqs[i].op = "refine" /\ reqs[i].origin = "editor"
    /\ reqs[i].phase = "sent"
    /\ reqs' = [reqs EXCEPT ![i].phase = "done", ![i].ok = FALSE,
                            ![i].err = "NetworkError"]
    /\ edLoading' = FALSE
    /\ UNCHANGED << others, downloads, store, now, providerCalls, currentDoc,
                    loadingRefine, loadingRegen, genLoading, viewer, edId,
                    edDoc, localEdits >>

\* the Comment button of section s with c in its box: the text is trimmed,
\* sendComment(sectionId, commentText) sends nothing for an empty text
EdComment(s, c) ==
    /\ s \in IdsOf(edDoc)
    /\ MayIssue
    /\ IF ~Truthy(Trim(c))
       THEN UNCHANGED reqs
       ELSE Send(NewReq("comment", "editor", s, Trim(c), NullText, 0))
    /\ UNCHANGED << store, now, providerCalls, client >>

\* sendComment after the response
EdCommentReceive(i) ==
    /\ reqs[i].op = "comment" /\ reqs[i].origin = "editor"
    /\ reqs[i].phase = "responded"
    /\ reqs' = [reqs EXCEPT ![i].phase = "done"]
    /\ edDoc' = IF reqs[i].ok
                THEN [ edDoc EXCEPT !.sections =
                        [ k \in DOMAIN edDoc.sections |->
                            IF edDoc.sections[k].id = reqs[i].target
                            THEN [edDoc.sections[k] EXCEPT !.comments =
                                     Append(@, reqs[i].body.comment)]
                            ELSE edDoc.sections[k] ] ]
                ELSE edDoc
    /\ UNCHANGED << others, downloads,
                    store, now, providerCalls, currentDoc, loadingRefine,
                    loadingRegen, genLoading, viewer, edId, edLoading,
                    localEdits >>

\* ------------------------------------------------------------------------
\* Feedback/Comment Service (spec.md 4.3), getDocument (4.1), Export (4.4)
\* ------------------------------------------------------------------------

\* UPDATE sections SET last_feedback = v WHERE id = s
UpdateLastFeedback(s, v) ==
    sections' = [ k \in DOMAIN sections |->
                    IF sections[k].id = s
                    THEN [sections[k] EXCEPT !.last_feedback = v]
                    ELSE sections[k] ]

\* the row of the feedback log
FeedbackRow(r, t) ==
    [ id         |-> Len(feedback) + 1,
      section_id |-> r.target,
      liked      |-> r.pages,
      created_at |-> t ]

\* setFeedback overwrites Section.last_feedback; the store may keep a log
\* of the feedback events (logged) or not
ServeFeedback(i) ==
    /\ reqs[i].op = "feedback"
    /\ reqs[i].phase = "sent"
    /\ IF reqs[i].target \notin StoredSectionIds
       THEN /\ Respond(i, FALSE, "NotFoundError", NoBody)
            /\ UNCHANGED << sections, feedback, now >>
       ELSE /\ UpdateLastFeedback(reqs[i].target, reqs[i].pages)
            /\ Respond(i, TRUE, "", NoBody)
            /\ \E logged \in BOOLEAN :
                 IF logged
                 THEN \E t \in ClockValues :
                          /\ now' = t
                          /\ feedback' = Append(feedback,
                                                FeedbackRow(reqs[i], t))
                 ELSE UNCHANGED << feedback, now >>
    /\ UNCHANGED << documents, refinements, comments, providerCalls, client >>

\* the Comment row addComment creates
CommentRow(r, t) ==
    [ id         |-> Len(comments) + 1,
      section_id |-> r.target,
      comment    |-> r.prompt,
      created_at |-> t ]

\* the created Comment as the response carries it
CommentJson(row) ==
    [ id |-> row.id, comment |-> row.comment, created_at |-> row.created_at ]

\* the errors that refuse an addComment request: ValidationError for an
\* empty text, NotFoundError for an unknown section id (when both apply,
\* either)
CommentRefusals(r) ==
    (IF r.prompt = <<>> THEN {"ValidationError"} ELSE {})
    \cup (IF r.target \notin StoredSectionIds THEN {"NotFoundError"} ELSE {})

\* addComment: text must be non-empty; answers the created Comment
ServeComment(i) ==
    /\ reqs[i].op = "comment"
    /\ reqs[i].phase = "sent"
    /\ IF CommentRefusals(reqs[i]) # {}
       THEN /\ \E e \in CommentRefusals(reqs[i]) :
                   Respond(i, FALSE, e, NoBody)
            /\ UNCHANGED << comments, now >>
       ELSE \E t \in ClockValues :
                /\ now' = t
                /\ comments' = Append(comments, CommentRow(reqs[i], t))
                /\ Respond(i, TRUE, "",
                           [NoBody EXCEPT !.comment =
                               CommentJson(CommentRow(reqs[i], t))])
    /\ UNCHANGED << documents, sections, refinements, feedback,
                    providerCalls, client >>

\* the JSON body of an error response, which carries no document and no
\* bytes
ErrorBody == [NoBody EXCEPT !.doc = ErrorDoc]

\* getDocument answers the document with its sections
ServeGet(i) ==
    /\ reqs[i].op = "get"
    /\ reqs[i].phase = "sent"
    /\ IF reqs[i].target \notin StoredDocumentIds
       THEN Respond(i, FALSE, "NotFoundError", ErrorBody)
       ELSE Respond(i, TRUE, "",
                    [NoBody EXCEPT !.doc = DocumentJson(reqs[i].target)])
    /\ UNCHANGED << store, now, providerCalls, client >>

ExportFormats == { "docx", "pptx", "pdf" }

\* the errors that refuse an export request: ValidationError for a format
\* outside the enumerated set, NotFoundError for an unknown document id
\* (when both apply, either)
ExportRefusals(r) ==
    (IF r.text \notin ExportFormats THEN {"ValidationError"} ELSE {})
    \cup (IF r.target \notin StoredDocumentIds THEN {"NotFoundError"} ELSE {})

\* export renders the document; the bytes are opaque and stand here as the
\* document they render; the renderer may fail (ExportError)
ServeExport(i) ==
    /\ reqs[i].op = "export"
    /\ reqs[i].phase = "sent"
    /\ IF ExportRefusals(reqs[i]) # {}
       THEN \E e \in ExportRefusals(reqs[i]) :
                Respond(i, FALSE, e, ErrorBody)
       ELSE \E rendered \in BOOLEAN :
                IF rendered
                THEN Respond(i, TRUE, "",
                         [NoBody EXCEPT !.doc = DocumentJson(reqs[i].target)])
                ELSE Respond(i, FALSE, "ExportError", ErrorBody)
    /\ UNCHANGED << store, now, providerCalls, client >>

\* ------------------------------------------------------------------------
\* Error responses and what the clients show for them
\* ------------------------------------------------------------------------

\* a key a JSON body does not have
Absent == "absent"

\* a || b of JavaScript on strings: a unless it is missing or empty
OrElse(a, b) == IF a # Absent /\ a # "" THEN a ELSE b

ErrorKeys == {"error", "detail"}

ErrorStatuses == {400, 404}

ErrorMessages == {"Prompt is required", "Section not found"}

\* the body {error: m} or {detail: m}
ErrorJson(k, m) ==
    [error   |-> IF k = "error" THEN m ELSE Absent,
     detail  |-> IF k = "detail" THEN m ELSE Absent,
     message |-> Absent]

\* the non-2xx responses: a status and a body carrying the message under
\* one of the two keys
ErrorResponses ==
    { [status |-> st, key |-> k, said |-> m, body |-> ErrorJson(k, m)] :
        st \in ErrorStatuses, k \in ErrorKeys, m \in ErrorMessages }

NoResponse ==
    [status |-> 0, key |-> Absent, said |-> Absent,
     body |-> ErrorJson(Absent, Absent)]

\* `HTTP ${res.status}`
HttpStatus(st) == IF st = 400 THEN "HTTP 400" ELSE "HTTP 404"

\* services/api.js handleResponse on !res.ok: the Error it throws
HandleResponse(res) ==
    [message |-> OrElse(res.body.detail,
                        OrElse(res.body.message, HttpStatus(res.status))),
     status  |-> res.status,
     body    |-> res.body]

\* the catch blocks of the pages built on services/api.js
CaughtMessage(err) == OrElse(err.body.detail, err.message)

\* the alert(data.error || "...") paths and their fixed texts
AlertFallback ==
    [generate     |-> "Generation failed",
     download     |-> "Failed to download PPTX",
     refine       |-> "Refine failed",
     regenerate   |-> "Regenerate failed",
     comment      |-> "Comment failed",
     edRefine     |-> "Refinement failed",
     edComment    |-> "Comment failed",
     login        |-> "Login failed"]

\* the error paths that go through handleResponse
CatchPaths == {"fetchProjects", "fetchSections", "doSave"}

ErrorPaths == DOMAIN AlertFallback \cup CatchPaths

\* what error path p shows the user for the non-2xx response res
Shown(p, res) ==
    IF p \in CatchPaths
    THEN IF p = "doSave"
         THEN OrElse(CaughtMessage(HandleResponse(res)), "Save failed")
         ELSE CaughtMessage(HandleResponse(res))
    ELSE OrElse(res.body.error, AlertFallback[p])

\* a service answers a request of some client with a non-2xx response
ErrorArrives(res) ==
    /\ response = NoResponse
    /\ response' = res
    /\ UNCHANGED << store, now, providerCalls, reqs, currentDoc,
                    loadingRefine, loadingRegen, genLoading, viewer, editor,
                    downloads, surfaced, cancelled, autosave, loggedIn >>

\* error path p handles the response and shows its message
Surface(p) ==
    /\ response # NoResponse
    /\ surfaced[p] = Absent
    /\ surfaced' = [surfaced EXCEPT ![p] = Shown(p, response)]
    /\ UNCHANGED << store, now, providerCalls, reqs, currentDoc,
                    loadingRefine, loadingRegen, genLoading, viewer, editor,
                    downloads, response, cancelled, autosave, loggedIn >>

\* ------------------------------------------------------------------------
\* SectionEditor (src/components/premium/SectionEditor.jsx): the debounced
\* autosave
\* ------------------------------------------------------------------------

\* debounce((v) => doSave(v), 800)
DebounceMs == 800

\* time passes in steps of half the debounce window
TickMs == DebounceMs \div 2

\* values of the textarea after a keystroke
TypedValues == { "u", "v" }

\* the component as mounted on a section with no content: nothing typed, no
\* timer, no save issued; stored is the content the service holds and
\* ordered says that the saves applied so far were applied in issue order
NoAutosave ==
    [content |-> "", typed |-> 0, pending |-> FALSE, lastArgs |-> "",
     elapsed |-> 0, saves |-> <<>>, stored |-> "", ordered |-> TRUE]

\* no step of the SectionEditor touches the other pages or the tables of
\* the document services
SectionEditorOnly ==
    UNCHANGED << store, now, providerCalls, reqs, currentDoc, loadingRefine,
                 loadingRegen, genLoading, viewer, editor, downloads, errors,
                 cancelled, loggedIn >>

\* onChange calling doSave(v) with no debounce
SeTypeSavesAtOnce(v) ==
    /\ autosave.typed < MaxTyped
    /\ v # autosave.content
    /\ autosave' = [autosave EXCEPT
                       !.content = v,
                       !.typed   = @ + 1,
                       !.saves   = Append(@, [value |-> v, state |-> "sent"])]
    /\ SectionEditorOnly

\* onChange: setContent(v); debouncedSave(v), which keeps v as the
\* argument of the next call and restarts the wait
SeType(v) ==
    /\ autosave.typed < MaxTyped
    /\ v # autosave.content
    /\ autosave' = [autosave EXCEPT
                       !.content  = v,
                       !.typed    = @ + 1,
                       !.pending  = TRUE,
                       !.lastArgs = v,
                       !.elapsed  = 0]
    /\ SectionEditorOnly

\* time passes while the debounce timer is pending
SeTick ==
    /\ autosave.pending
    /\ autosave.elapsed < DebounceMs
    /\ autosave' = [autosave EXCEPT !.elapsed = @ + TickMs]
    /\ SectionEditorOnly

\* the timer expires: doSave(lastArgs) sends PATCH .../sections/{id}
\* {content: value}
SeFire ==
    /\ autosave.pending
    /\ autosave.elapsed >= DebounceMs
    /\ autosave' = [autosave EXCEPT
                       !.pending = FALSE,
                       !.saves   = Append(@, [value |-> autosave.lastArgs,
                                              state |-> "sent"])]
    /\ SectionEditorOnly

\* the service applies save k: last write wins, whatever the order
SeApply(k) ==
    /\ k \in DOMAIN autosave.saves
    /\ autosave.saves[k].state = "sent"
    /\ autosave' = [autosave EXCEPT
                       !.stored  = autosave.saves[k].value,
                       !.saves[k].state = "applied",
                       !.ordered =
                           /\ @
                           /\ \A j \in DOMAIN autosave.saves :
                                 j < k => autosave.saves[j].state # "sent"
                           /\ \A j \in DOMAIN autosave.saves :
                                 j > k => autosave.saves[j].state # "applied"]
    /\ SectionEditorOnly

\* save k is answered with a non-2xx response or the fetch rejects:
\* doSave's catch block shows the message, nothing is stored
SeSaveFails(k) ==
    /\ k \in DOMAIN autosave.saves
    /\ autosave.saves[k].state = "sent"
    /\ autosave' = [autosave EXCEPT !.saves[k].state = "failed"]
    /\ SectionEditorOnly

\* ------------------------------------------------------------------------
\* Specification
\* ------------------------------------------------------------------------

Init ==
    /\ documents = <<>>
    /\ sections = <<>>
    /\ refinements = <<>>
    /\ comments = <<>>
    /\ feedback = <<>>
    /\ now = 0
    /\ providerCalls = 0
    /\ reqs = <<>>
    /\ currentDoc = NoDoc
    /\ loadingRefine = [s \in SectionIds |-> FALSE]
    /\ loadingRegen = [s \in SectionIds |-> FALSE]
    /\ genLoading = FALSE
    /\ form = FormInit
    /\ pvId = 0
    /\ pvDoc = NoDoc
    /\ pvLoading = FALSE
    /\ editing = [s \in SectionIds |-> NoEdit]
    /\ edId = 0
    /\ edDoc = NoDoc
    /\ edLoading = FALSE
    /\ localEdits = [s \in SectionIds |-> NoEdit]
    /\ downloads = <<>>
    /\ response = NoResponse
    /\ surfaced = [p \in ErrorPaths |-> Absent]
    /\ cancelled = FALSE
    /\ autosave = NoAutosave
    /\ loggedIn = TRUE

\* the requests and steps of the services every specification has
Serve(i) ==
    \/ ServeCreate(i)
    \/ ServeGenerateStart(i)
    \/ \E out \in PageOutputs : GeneratePageOk(i, out)
    \/ GeneratePageFail(i)
    \/ GenerateRespond(i)
    \/ ServeRefineStart(i)
    \/ \E out \in ProviderOutputs : RefineProviderOk(i, out)
    \/ RefineProviderFail(i)
    \/ RefineWriteText(i)
    \/ RefineRespond(i)

\* the app.js client
Ui ==
    \/ \E t \in TitleInputs : UiCreate(t)
    \/ \E p \in PromptInputs, n \in OnePage : UiGenerate(p, n)
    \/ \E s \in SectionIds, p \in PromptInputs : UiRefine(s, p)
    \/ \E s \in SectionIds, c \in BOOLEAN : UiRegenerate(s, c)
    \/ \E i \in DOMAIN reqs :
         \/ UiCreateReceive(i)
         \/ UiGenerateReceive(i)
         \/ UiRefineReceive(i)
         \/ UiRegenerateReceive(i)

\* the refinement workflow: the app.js client and one more caller of refine
Next ==
    \/ Ui
    \/ \E i \in DOMAIN reqs : Serve(i)
    \/ \E s \in SectionIds, p \in ApiPrompts : ApiRefine(s, p)

Spec == Init /\ [][Next]_vars


\* the generation workflow: createDocument, generateDocument and a reader
\* of the document
NextGen ==
    \/ \E t \in TitleInputs : UiCreate(t)
    \/ \E p \in PromptInputs, n \in PageInputs : UiGenerate(p, n)
    \/ \E d \in 1 .. MaxRequests : ApiGet(d)
    \/ \E i \in DOMAIN reqs :
         \/ ServeCreate(i)
         \/ ServeGenerateStart(i)
         \/ \E out \in PageOutputs : GeneratePageOk(i, out)
         \/ GeneratePageFail(i)
         \/ GenerateRespond(i)
         \/ ServeGet(i)
         \/ UiCreateReceive(i)
         \/ UiGenerateReceive(i)

SpecGen == Init /\ [][NextGen]_vars

\* every request made so far has been answered and the answer handled
Quiet ==
    \A i \in DOMAIN reqs :
        \/ reqs[i].phase = "done"
        \/ reqs[i].origin = "api" /\ reqs[i].phase = "responded"

\* what the clients and the other callers hand to createDocument and
\* generateDocument, one request at a time
NextInputs ==
    \/ Quiet /\ \E t \in TitleInputs : UiCreate(t)
    \/ Quiet /\ \E p \in PromptInputs, n \in OnePage : UiGenerate(p, n)
    \/ Quiet /\ \E t \in TitleInputs, p \in PromptInputs, n \in OnePage :
                  FormCreate(t, p, n)
    \/ Quiet /\ \E t \in TitleInputs : ApiCreate(t)
    \/ Quiet /\ \E d \in 1 .. MaxRequests, p \in ApiPrompts,
                     n \in ApiPageCounts : ApiGenerate(d, p, n)
    \/ \E i \in DOMAIN reqs :
         \/ ServeCreate(i)
         \/ ServeGenerateStart(i)
         \/ \E out \in PageOutputs : GeneratePageOk(i, out)
         \/ GeneratePageFail(i)
         \/ GenerateRespond(i)
         \/ ServeGet(i)
         \/ UiCreateReceive(i)
         \/ UiGenerateReceive(i)
         \/ FormCreateReceive(i)
         \/ FormGenerateReceive(i)
         \/ PvLoadReceive(i)

SpecInputs == Init /\ [][NextInputs]_vars

\* every operation of the services
NextAll ==
    \/ Ui
    \/ \E i \in DOMAIN reqs : Serve(i)
    \/ \E s \in SectionIds, l \in BOOLEAN : ApiFeedback(s, l)
    \/ \E s \in SectionIds, c \in CommentInputs : ApiComment(s, c)
    \/ \E d \in 1 .. MaxRequests : ApiGet(d)
    \/ \E d \in 1 .. MaxRequests, f \in FormatInputs : ApiExport(d, f)
    \/ \E i \in DOMAIN reqs :
         \/ ServeFeedback(i)
         \/ ServeComment(i)
         \/ ServeGet(i)
         \/ ServeExport(i)

SpecAll == Init /\ [][NextAll]_vars


\* the bundle's pages and the RefinementEditor, with one more caller of
\* refine
NextClients ==
    \/ \E t \in TitleInputs, p \in PromptInputs, n \in OnePage :
         FormCreate(t, p, n)
    \/ \E s \in SectionIds, p \in PromptInputs : PvRefine(s, p)
    \/ \E d \in 1 .. MaxRequests : EdOpen(d)
    \/ \E s \in SectionIds, p \in PromptInputs : EdRefine(s, p)
    \/ \E s \in SectionIds, p \in ApiPrompts : ApiRefine(s, p)
    \/ \E i \in DOMAIN reqs :
         \/ FormCreateReceive(i)
         \/ FormGenerateReceive(i)
         \/ PvLoadReceive(i)
         \/ PvRefineReceive(i)
         \/ EdLoadReceive(i)
         \/ EdRefineReceive(i)
         \/ Serve(i)
         \/ ServeGet(i)

SpecClients == Init /\ [][NextClients]_vars


\* the same clients with the user editing the text of the sections
NextEdits ==
    \/ \E t \in TitleInputs, p \in PromptInputs, n \in OnePage :
         FormCreate(t, p, n)
    \/ \E s \in SectionIds, t \in EditInputs : PvEdit(s, t)
    \/ \E s \in SectionIds, p \in PromptInputs : PvRefine(s, p)
    \/ \E d \in 1 .. MaxRequests : EdOpen(d)
    \/ \E s \in SectionIds, t \in EditInputs : EdApplyLocalEdit(s, t)
    \/ \E s \in SectionIds, p \in PromptInputs : EdRefine(s, p)
    \/ \E i \in DOMAIN reqs :
         \/ FormCreateReceive(i)
         \/ FormGenerateReceive(i)
         \/ PvLoadReceive(i)
         \/ PvRefineReceive(i)
         \/ EdLoadReceive(i)
         \/ EdRefineReceive(i)
         \/ Serve(i)
         \/ ServeGet(i)

SpecEdits == Init /\ [][NextEdits]_vars


\* the annotations: feedback and comments from the app.js client and from
\* other callers, with a reader of the document
NextNotes ==
    \/ \E t \in TitleInputs : UiCreate(t)
    \/ \E p \in PromptInputs, n \in OnePage : UiGenerate(p, n)
    \/ \E s \in SectionIds, l \in BOOLEAN : UiFeedback(s, l)
    \/ \E s \in SectionIds, l \in BOOLEAN : ApiFeedback(s, l)
    \/ \E s \in SectionIds, c \in TypedComments : UiComment(s, c)
    \/ \E s \in SectionIds, c \in CommentInputs : ApiComment(s, c)
    \/ \E d \in 1 .. MaxRequests : EdOpen(d)
    \/ \E s \in SectionIds, c \in TypedComments : EdComment(s, c)
    \/ \E d \in 1 .. MaxRequests : ApiGet(d)
    \/ \E i \in DOMAIN reqs :
         \/ ServeComment(i)
         \/ UiCommentReceive(i)
         \/ EdLoadReceive(i)
         \/ EdCommentReceive(i)
         \/ ServeCreate(i)
         \/ ServeGenerateStart(i)
         \/ \E out \in PageOutputs : GeneratePageOk(i, out)
         \/ GeneratePageFail(i)
         \/ GenerateRespond(i)
         \/ ServeFeedback(i)
         \/ ServeGet(i)
         \/ UiCreateReceive(i)
         \/ UiGenerateReceive(i)
         \/ UiFeedbackReceive(i)

SpecNotes == Init /\ [][NextNotes]_vars


\* the document ids requested: the id of the first document and an id no
\* document can have
RequestedIds == { 1, MaxRequests + 1 }

\* opening and exporting documents, one request at a time: the app.js
\* client, the RefinementEditor mounted with any documentId, and other
\* callers
NextDocs ==
    \/ Quiet /\ \E t \in TitleInputs : UiCreate(t)
    \/ Quiet /\ \E p \in PromptInputs, n \in OnePage : UiGenerate(p, n)
    \/ Quiet /\ UiBack
    \/ Quiet /\ \E d \in RequestedIds : UiSelectDoc(d)
    \/ Quiet /\ \E f \in DownloadFormats : UiDownload(f)
    \/ Quiet /\ \E d \in RequestedIds : EdMount(d)
    \/ Quiet /\ \E d \in RequestedIds, f \in FormatInputs : ApiExportAny(d, f)
    \/ \E i \in DOMAIN reqs :
         \/ ServeCreate(i)
         \/ ServeGenerateStart(i)
         \/ \E out \in PageOutputs : GeneratePageOk(i, out)
         \/ GeneratePageFail(i)
         \/ GenerateRespond(i)
         \/ ServeGet(i)
         \/ ServeExport(i)
         \/ UiCreateReceive(i)
         \/ UiGenerateReceive(i)
         \/ UiSelectReceive(i)
         \/ UiDownloadReceive(i)
         \/ EdLoadReceive(i)

SpecDocs == Init /\ [][NextDocs]_vars


\* requests addressed to ids that exist and to ids that do not, one request
\* at a time
NextRefs ==
    \/ Quiet /\ \E t \in TitleInputs : ApiCreate(t)
    \/ Quiet /\ \E d \in RequestedIds : ApiGenerateAny(d)
    \/ Quiet /\ \E op \in SectionOps, s \in RequestedSectionIds :
                  ApiOnSection(op, s)
    \/ \E i \in DOMAIN reqs :
         \/ Serve(i)
         \/ ServeFeedback(i)
         \/ ServeComment(i)

SpecRefs == Init /\ [][NextRefs]_vars


\* refine and regenerate from the section cards and refine from the
\* RefinementEditor
NextRetry ==
    \/ Ui
    \/ \E d \in 1 .. MaxRequests : EdOpen(d)
    \/ \E s \in SectionIds, p \in PromptInputs : EdRefine(s, p)
    \/ \E i \in DOMAIN reqs :
         \/ Serve(i)
         \/ ServeGet(i)
         \/ EdLoadReceive(i)
         \/ EdRefineReceive(i)

SpecRetry == Init /\ [][NextRetry]_vars

\* non-2xx responses of either shape reaching each error path of the
\* clients
NextErrors ==
    \/ \E res \in ErrorResponses : ErrorArrives(res)
    \/ \E p \in ErrorPaths : Surface(p)

SpecErrors == Init /\ [][NextErrors]_vars

\* page counts of a document with several sections
PageCounts == 1 .. MaxPages

\* the sections whose textarea the user types into
EditedSections == { 1, 2 }

\* one of the three clients refining the sections of a generated document,
\* with the user editing the texts; one document, one client and one
\* request at a time
NextTexts ==
    \/ reqs = <<>> /\ \E t \in TitleInputs, n \in PageCounts :
                      FormCreate(t, <<"a", " ">>, n)
    \/ reqs = <<>> /\ ApiCreate(<<"T">>)
    \/ Quiet /\ sections = <<>>
             /\ \E d \in 1 .. MaxRequests, n \in PageCounts :
                  ApiGenerate(d, <<"b">>, n)
    \/ Quiet /\ edId = 0 /\ \E d \in 1 .. MaxRequests : UiSelectDoc(d)
    \/ Quiet /\ currentDoc = NoDoc /\ \E d \in 1 .. MaxRequests : EdOpen(d)
    \/ \E s \in EditedSections, t \in EditInputs : PvEdit(s, t)
    \/ \E s \in EditedSections, t \in EditInputs :
         EdApplyLocalEdit(s, t)
    \/ Quiet /\ \E s \in SectionIds, p \in PromptInputs : UiRefine(s, p)
    \/ Quiet /\ \E s \in SectionIds, p \in PromptInputs : PvRefine(s, p)
    \/ Quiet /\ \E s \in SectionIds, p \in PromptInputs : EdRefine(s, p)
    \/ \E i \in DOMAIN reqs :
         \/ Serve(i)
         \/ ServeGet(i)
         \/ FormCreateReceive(i)
         \/ FormGenerateReceive(i)
         \/ PvLoadReceive(i)
         \/ PvRefineReceive(i)
         \/ UiSelectReceive(i)
         \/ UiRefineReceive(i)
         \/ EdLoadReceive(i)
         \/ EdRefineReceive(i)
         \/ EdRefineNetworkError(i)

SpecTexts == Init /\ [][NextTexts]_vars

\* the SectionEditor: typing, the debounce timer and the saves
NextSave ==
    \/ \E v \in TypedValues : SeType(v)
    \/ SeTick
    \/ SeFire
    \/ \E k \in 1 .. MaxTyped : SeApply(k)
    \/ \E k \in 1 .. MaxTyped : SeSaveFails(k)

\* time passes and an expired timer runs its callback
SpecSave ==
    /\ Init
    /\ [][NextSave]_vars
    /\ WF_vars(SeTick)
    /\ WF_vars(SeFire)

\* users logging out and in while the App's requests are in flight; the
\* pages of the App are there for a logged-in user only
NextSession ==
    \/ UiLogout
    \/ UiLogin
    \/ loggedIn /\ \E t \in TitleInputs : UiCreate(t)
    \/ loggedIn /\ \E p \in PromptInputs, n \in OnePage : UiGenerate(p, n)
    \/ loggedIn /\ \E d \in 1 .. MaxRequests : UiSelectDoc(d)
    \/ loggedIn /\ UiBack
    \/ \E i \in DOMAIN reqs :
         \/ ServeCreate(i)
         \/ ServeGenerateStart(i)
         \/ \E out \in PageOutputs : GeneratePageOk(i, out)
         \/ GeneratePageFail(i)
         \/ GenerateRespond(i)
         \/ ServeGet(i)
         \/ UiCreateReceive(i)
         \/ UiGenerateReceive(i)
         \/ UiSelectReceive(i)

SpecSession == Init /\ [][NextSession]_vars


\* ------------------------------------------------------------------------
\* Properties
\* ------------------------------------------------------------------------

Last(q) == q[Len(q)]

IsPrefix(p, q) == Len(p) <= Len(q) /\ SubSeq(q, 1, Len(p)) = p

\* the caller of request i has its response
Finished(i) ==
    \/ reqs[i].phase = "done"
    \/ reqs[i].origin = "api" /\ reqs[i].phase = "responded"

\* request i has written its Refinement row
PastInsert(i) ==
    /\ reqs[i].op \in RefineOps
    /\ reqs[i].rid # 0

\* the rows of the table refinements with id n
RowsWithId(n) == { k \in DOMAIN refinements : refinements[k].id = n }

\* the Refinement request i created
OwnRow(i) == refinements[CHOOSE k \in DOMAIN refinements :
                            refinements[k].id = reqs[i].rid]

\* request i takes the step from phase a to phase b
Moves(i, a, b) == reqs[i].phase = a /\ reqs'[i].phase = b

\* the provider answers a refine call: exactly one Refinement, carrying the
\* call's prompt and the provider's output, is appended to the history of
\* the call's Section, and nothing else is written
RefineAppendsOne(i) ==
    LET r == reqs[i] IN
    Moves(i, "provider", "inserted") =>
        /\ History(r.target)' =
              Append(History(r.target),
                     [ id           |-> reqs'[i].rid,
                       section_id   |-> r.target,
                       prompt       |-> r.prompt,
                       revised_text |-> reqs'[i].out,
                       created_at   |-> now' ])
        /\ Len(refinements') = Len(refinements) + 1
        /\ reqs'[i].out \in ProviderOutputs
        /\ sections' = sections

\* the call then overwrites Section.text with that Refinement's revised_text
RefineSetsText(i) ==
    LET r == reqs[i] IN
    Moves(i, "inserted", "updated") =>
        /\ StoredText(r.target)' = OwnRow(i).revised_text
        /\ refinements' = refinements

\* SectionCard.refine shows the revised text and the returned history on the
\* card of the section, when the card is still on screen
CardShowsResponse(i) ==
    LET r == reqs[i] IN
    (r.origin = "ui" /\ r.ok /\ Moves(i, "responded", "done")
        /\ r.target \in CardIds) =>
            /\ r.target \in CardIds'
            /\ Card(r.target)'.text = r.body.text
            /\ Card(r.target)'.refinements = r.body.refinements

\* C1: for every Section, every non-empty prompt and every successful
\* provider response, one refine call appends exactly one Refinement
\* (carrying that prompt and the provider's output) to the Section's history
\* and sets Section.text to that Refinement's revised_text; the app.js
\* client then shows that text on the section's card.
C1_RefineAppendsAndSetsText ==
    [][ \A i \in DOMAIN reqs :
          (reqs[i].op = "refine" /\ reqs[i].prompt # <<>>) =>
              /\ RefineAppendsOne(i)
              /\ RefineSetsText(i)
              /\ CardShowsResponse(i)
              /\ PastInsert(i) => Cardinality(RowsWithId(reqs[i].rid)) = 1 ]_vars

\* a refine call of the client has been answered and applied: its one
\* Refinement is in the history and the card shows its text
C1_Witness ==
    \E i \in DOMAIN reqs :
        /\ reqs[i].op = "refine" /\ reqs[i].origin = "ui"
        /\ reqs[i].phase = "done" /\ reqs[i].ok
        /\ reqs[i].prompt # <<>>
        /\ History(reqs[i].target) # <<>>
        /\ OwnRow(i).prompt = reqs[i].prompt
        /\ StoredText(reqs[i].target) = OwnRow(i).revised_text
        /\ reqs[i].target \in CardIds
        /\ Card(reqs[i].target).text = OwnRow(i).revised_text


\* the provider fails on call i: nothing is written to the store and the
\* caller gets a RefinementError
ProviderFailureWritesNothing(i) ==
    Moves(i, "provider", "responded") =>
        /\ store' = store
        /\ now' = now
        /\ ~reqs'[i].ok
        /\ reqs'[i].err = "RefinementError"
        /\ reqs'[i].rid = 0

\* SectionCard.refine leaves the document on screen as it is when the
\* response is an error
CardKeepsStateOnError(i) ==
    (reqs[i].origin = "ui" /\ ~reqs[i].ok /\ Moves(i, "responded", "done")) =>
        currentDoc' = currentDoc

\* C2: if the AI Text Provider fails or times out during refine, no
\* Refinement is persisted and Section.text is unchanged (the whole Section
\* state equals its state before the call), the caller receives a
\* RefinementError, and the app.js client leaves its view of the section
\* unchanged.
C2_ProviderFailureLeavesState ==
    [][ \A i \in DOMAIN reqs :
          reqs[i].op = "refine" =>
              /\ ProviderFailureWritesNothing(i)
              /\ CardKeepsStateOnError(i)
              /\ (reqs[i].err = "RefinementError") =>
                     /\ reqs[i].rid = 0
                     /\ reqs'[i].rid = 0 ]_vars

\* a refine call of the client failed at the provider and was handed back:
\* the section has no Refinement and the card shows the text it had
C2_Witness ==
    \E i \in DOMAIN reqs :
        /\ reqs[i].op = "refine" /\ reqs[i].origin = "ui"
        /\ reqs[i].phase = "done"
        /\ reqs[i].err = "RefinementError"
        /\ History(reqs[i].target) = <<>>
        /\ StoredText(reqs[i].target) = reqs[i].text
        /\ reqs[i].target \in CardIds
        /\ Card(reqs[i].target).text = reqs[i].text


\* the service answers a refine request with an empty prompt by a
\* ValidationError: no provider call, no write to the store
EmptyPromptRejected(i) ==
    (reqs[i].prompt = <<>> /\ reqs[i].phase = "sent"
        /\ reqs'[i].phase # "sent") =>
            /\ reqs'[i].phase = "responded"
            /\ ~reqs'[i].ok
            /\ reqs'[i].err = "ValidationError"
            /\ reqs'[i].rid = 0
            /\ providerCalls' = providerCalls
            /\ store' = store

\* the refine requests a step sends
NewRefines == { j \in DOMAIN reqs' : j \notin DOMAIN reqs
                                     /\ reqs'[j].op = "refine" }

\* the clients of the repository
Clients == { "ui", "viewer", "editor" }

\* C3: for every empty prompt, refine is rejected with ValidationError, no
\* AI Text Provider call is made, no Refinement is created and the Section
\* state is unchanged; the clients likewise send no refine request when the
\* prompt is empty or whitespace-only.
C3_EmptyOrBlankPromptRefused ==
    [][ /\ \A i \in DOMAIN reqs :
              reqs[i].op = "refine" => EmptyPromptRejected(i)
        /\ \A j \in NewRefines :
              reqs'[j].origin \in Clients => Trim(reqs'[j].prompt) # <<>>
      ]_vars


\* the rows of q are in the order of their created_at
Chronological(q) ==
    \A k \in 1 .. (Len(q) - 1) : q[k].created_at <= q[k + 1].created_at

\* the rows of q whose id is n
Entries(q, n) == { k \in DOMAIN q : q[k].id = n }

\* refine call i answers: the list it returns is the whole history of the
\* Section at that moment, in chronological order; the Refinement the call
\* appended is in it once, and its revised_text is the returned text; it is
\* the newest entry when no other call on the Section overlapped this one
RespondsWithHistory(i) ==
    LET r == reqs[i]
        b == reqs'[i].body
    IN  Moves(i, "updated", "responded") =>
            /\ reqs'[i].ok
            /\ b.refinements = History(r.target)
            /\ Chronological(b.refinements)
            /\ Cardinality(Entries(b.refinements, r.rid)) = 1
            /\ \A k \in Entries(b.refinements, r.rid) :
                   b.refinements[k].revised_text = b.text
            /\ r.alone => Last(b.refinements).revised_text = b.text

Sequential(s) ==
    \A i \in DOMAIN reqs :
        (reqs[i].op \in RefineOps /\ reqs[i].target = s) => reqs[i].alone

\* the calls on section s that got the provider's answer, in call order
Succeeded(s) ==
    SelectSeq(reqs, LAMBDA r : r.op \in RefineOps /\ r.target = s
                               /\ r.rid # 0)

\* C5: calling refine N times in sequence with non-empty prompts and
\* successful provider responses yields a history of exactly N Refinements
\* whose i-th entry carries the i-th call's prompt and output (insertion
\* order = call order = chronological order).
C5_SequentialCallsInCallOrder ==
    \A s \in StoredSectionIds :
        Sequential(s) =>
            /\ Len(History(s)) = Len(Succeeded(s))
            /\ Chronological(History(s))
            /\ \A k \in DOMAIN History(s) :
                  /\ History(s)[k].id = Succeeded(s)[k].rid
                  /\ History(s)[k].prompt = Instruction(Succeeded(s)[k])
                  /\ History(s)[k].revised_text = Succeeded(s)[k].out

\* two refine calls made one after the other, with different prompts, have
\* both been answered: the history holds their two Refinements in call order
C5_Witness ==
    \E s \in StoredSectionIds :
        /\ Sequential(s)
        /\ Len(History(s)) = 2
        /\ Len(Succeeded(s)) = 2
        /\ Succeeded(s)[1].op = "refine" /\ Succeeded(s)[2].op = "refine"
        /\ Succeeded(s)[1].prompt # Succeeded(s)[2].prompt
        /\ History(s)[1].prompt = Succeeded(s)[1].prompt
        /\ History(s)[2].prompt = Succeeded(s)[2].prompt
        /\ Finished(Len(reqs))


\* C6: the Refinement history of a Section is append-only across every
\* operation of the system: for any step (successful or failed refine,
\* regenerate, setFeedback, addComment, generateDocument, getDocument,
\* export), the history before the step is a prefix of the history after
\* it, and no existing Refinement's id, prompt, revised_text or created_at
\* ever changes.
C6_HistoryAppendOnly ==
    [][ /\ IsPrefix(refinements, refinements')
        /\ \A s \in SectionIds : IsPrefix(History(s), History(s)')
        /\ \A k \in DOMAIN refinements :
              /\ refinements'[k].id = refinements[k].id
              /\ refinements'[k].prompt = refinements[k].prompt
              /\ refinements'[k].revised_text = refinements[k].revised_text
              /\ refinements'[k].created_at = refinements[k].created_at
      ]_vars

\* a Section has a Refinement whose call was answered, and a setFeedback,
\* addComment, getDocument or export request made after that call, on the
\* Section or its Document, has been answered too
C6_Witness ==
    \E i, j \in DOMAIN reqs :
        /\ reqs[i].op \in RefineOps /\ reqs[i].rid # 0
        /\ History(reqs[i].target) # <<>>
        /\ reqs[j].op \in {"comment", "feedback", "get", "export"}
        /\ reqs[j].target \in {reqs[i].target, sections[1].document_id}
        /\ j > i
        /\ reqs[j].phase = "responded"
        /\ reqs[i].phase \in {"responded", "done"}

\* a refine/regenerate call on section s has not been answered to its caller
InFlight(s) ==
    \E i \in DOMAIN reqs :
        /\ reqs[i].op \in RefineOps /\ reqs[i].target = s
        /\ ~Finished(i)

\* the text of section s is the revised_text of a Refinement of its history
TextInHistory(s) ==
    \E k \in DOMAIN History(s) : History(s)[k].revised_text = StoredText(s)

RefineErrors == { "ValidationError", "RefinementError" }

\* the service holds back no step of call i and turns down no call that got
\* the provider's answer: the insert and the write of Section.text are
\* enabled whatever the other calls have done, and only a call that wrote
\* nothing is answered with an error
NeverHeldBack(i) ==
    /\ reqs[i].phase = "provider" =>
          \A out \in ProviderOutputs : ENABLED RefineProviderOk(i, out)
    /\ reqs[i].phase = "inserted" => ENABLED RefineWriteText(i)
    /\ reqs[i].phase = "updated" => ENABLED RefineRespond(i)
    /\ (reqs[i].phase \in {"responded", "done"} /\ ~reqs[i].ok) =>
          /\ reqs[i].err \in RefineErrors
          /\ reqs[i].rid = 0
    /\ reqs[i].rid # 0 =>
          (reqs[i].phase \in {"responded", "done"} => reqs[i].ok)

\* a SectionCard keeps separate in-flight flags: while its refine is in
\* flight its Regenerate button still sends, and the other way round
CardsOverlap ==
    \A s \in CardIds :
        /\ (loadingRefine[s] /\ ~loadingRegen[s] /\ MayIssue) =>
              ENABLED UiRegenerate(s, TRUE)
        /\ (loadingRegen[s] /\ ~loadingRefine[s] /\ MayIssue) =>
              \A p \in PromptInputs : ENABLED UiRefine(s, p)

\* C8: the lost-update hazard is unguarded: the service applies no version
\* check or lock that rejects or orders the write of a refine/regenerate
\* call, and the app.js client lets a refine and a regenerate of one card
\* overlap.  (That the hazard is reachable is C8_LostUpdate.)
C8_NoVersionCheckOrLock ==
    /\ \A i \in DOMAIN reqs : reqs[i].op \in RefineOps => NeverHeldBack(i)
    /\ CardsOverlap

\* the lost update: two refine calls on the same Section overlapped and both
\* succeeded; the first caller i has been returned R1; the second call j was
\* computed from a currentText that is not R1, and its write has put R2 in
\* Section.text
C8_LostUpdate ==
    \E i, j \in DOMAIN reqs :
        /\ i # j
        /\ reqs[i].op = "refine" /\ reqs[j].op = "refine"
        /\ reqs[i].target = reqs[j].target
        /\ ~reqs[i].alone /\ ~reqs[j].alone
        /\ Finished(i) /\ reqs[i].ok
        /\ reqs[j].phase \in {"responded", "done"} /\ reqs[j].ok
        /\ reqs[j].rid > reqs[i].rid
        /\ reqs[j].text # reqs[i].body.text
        /\ reqs[j].out # reqs[i].body.text
        /\ StoredText(reqs[j].target) = reqs[j].out

\* the Sections of document d
SectionRows(d) == { k \in DOMAIN sections : sections[k].document_id = d }

\* the positions of the Sections of document d
Positions(d) == { sections[k].position : k \in SectionRows(d) }

\* C9: generateDocument with pageCount = k (1 <= k <= 50) on a Document,
\* when all k provider calls succeed, leaves the Document with exactly k
\* Sections whose positions are exactly 0..k-1, one per page, each with
\* non-empty text.
C9_GenerateLeavesKSections ==
    \A i \in DOMAIN reqs :
        (reqs[i].op = "generate" /\ reqs[i].ok) =>
            LET made == reqs[i].body.doc.sections IN
            /\ Len(made) = reqs[i].pages
            /\ { made[k].position : k \in DOMAIN made }
                   = 0 .. (reqs[i].pages - 1)
            /\ \A k \in DOMAIN made : made[k].text \notin {NullText, ""}

\* C10: after any sequence of operations, including generateDocument being
\* invoked more than once on the same Document, no two Sections of one
\* Document share the same position.
C10_PositionsUnique ==
    \A a, b \in DOMAIN sections :
        (a # b /\ sections[a].document_id = sections[b].document_id) =>
            sections[a].position # sections[b].position


\* the requests a step sends
NewRequests == { j \in DOMAIN reqs' : j \notin DOMAIN reqs }

\* generateDocument turns down a request with a non-positive pageCount or an
\* empty prompt before any provider call: GenerationError, no provider
\* call, no Section created, none discarded
GenerateRejected(i) ==
    (~ValidGenerate(reqs[i]) /\ reqs[i].phase = "sent"
        /\ reqs'[i].phase # "sent") =>
            /\ reqs'[i].phase = "responded"
            /\ ~reqs'[i].ok
            /\ reqs'[i].err = "GenerationError"
            /\ reqs'[i].page = 0
            /\ providerCalls' = providerCalls
            /\ store' = store

\* C11: generateDocument with a non-positive pageCount or an empty prompt
\* fails with GenerationError before any AI Text Provider call is made: zero
\* provider calls, zero Sections created, and no previously written Section
\* discarded; the client sends no generate request when the prompt is
\* blank.
C11_InvalidGenerateRejected ==
    [][ /\ \A i \in DOMAIN reqs :
              reqs[i].op = "generate" =>
                  /\ GenerateRejected(i)
                  /\ ~ValidGenerate(reqs[i]) =>
                        reqs'[i].phase \in {"sent", "responded", "done"}
        /\ \A j \in NewRequests :
              (reqs'[j].op = "generate" /\ reqs'[j].origin \in Clients) =>
                  Trim(reqs'[j].prompt) # <<>>
      ]_vars

\* a generate request with a non-positive pageCount and one with an empty
\* prompt were turned down on a Document that had a Section, which it kept
C11_Witness ==
    \E i, j \in DOMAIN reqs :
        /\ reqs[i].op = "generate" /\ reqs[j].op = "generate"
        /\ reqs[i].pages <= 0 /\ reqs[i].prompt # <<>>
        /\ reqs[j].pages > 0 /\ reqs[j].prompt = <<>>
        /\ reqs[i].err = "GenerationError"
        /\ reqs[j].err = "GenerationError"
        /\ reqs[i].target = reqs[j].target
        /\ Len(SectionsOf(reqs[i].target)) = 1
        /\ providerCalls = 1


\* the provider fails on a page of call i: the call reports GenerationError
\* and the step writes nothing, so the Sections of the pages before stay
PageFailureReported(i) ==
    (Moves(i, "generating", "responded") /\ ~reqs'[i].ok) =>
        /\ reqs'[i].err = "GenerationError"
        /\ reqs'[i].page = reqs[i].page
        /\ store' = store

\* the Document of call i has a Section with text for every page the call
\* has created
PagesPersist(i) ==
    \A q \in 0 .. (reqs[i].page - 1) :
        \E k \in SectionRows(reqs[i].target) :
            /\ sections[k].position = q
            /\ sections[k].text \notin {NullText, ""}

\* no Section row is removed or changed by the step
NothingRolledBack ==
    /\ Len(sections) <= Len(sections')
    /\ \A k \in DOMAIN sections : sections'[k] = sections[k]

\* getDocument answers the Document with a Section for every page that
\* generate call g has created
GetShowsPages(i, g) ==
    Moves(i, "sent", "responded") =>
        /\ reqs'[i].ok
        /\ \A q \in 0 .. (reqs[g].page - 1) :
              \E k \in DOMAIN reqs'[i].body.doc.sections :
                  reqs'[i].body.doc.sections[k].position = q

\* C12: if the AI Text Provider fails on page j (0 <= j < k) of a k-page
\* generateDocument, the j Sections already created for pages 0..j-1 remain
\* persisted and visible to a later getDocument, and the call reports an
\* error; nothing is rolled back.  ProjectConfig.handleGenerate leaves the
\* document on screen as it was.
C12_PartialGenerationKept ==
    [][ /\ NothingRolledBack
        /\ \A i \in DOMAIN reqs :
              /\ reqs[i].op = "generate" =>
                    /\ PageFailureReported(i)
                    /\ CardKeepsStateOnError(i)
                    /\ PagesPersist(i)'
              /\ reqs[i].op = "get" =>
                    \A g \in DOMAIN reqs :
                        (reqs[g].op = "generate"
                            /\ reqs[g].target = reqs[i].target) =>
                                GetShowsPages(i, g)
      ]_vars

\* a 2-page generate of the client failed on page 1 and was handed back; a
\* getDocument made after it shows the Section of page 0, and the client
\* still shows the document without it
C12_Witness ==
    \E i, j \in DOMAIN reqs :
        /\ reqs[i].op = "generate" /\ reqs[i].origin = "ui"
        /\ reqs[i].pages = 2 /\ reqs[i].page = 1
        /\ reqs[i].phase = "done"
        /\ reqs[i].err = "GenerationError"
        /\ j > i
        /\ reqs[j].op = "get" /\ reqs[j].target = reqs[i].target
        /\ reqs[j].phase = "responded" /\ reqs[j].ok
        /\ Len(reqs[j].body.doc.sections) = 1
        /\ reqs[j].body.doc.sections[1].position = 0
        /\ currentDoc.id = reqs[i].target
        /\ currentDoc.sections = <<>>


\* the provider answers a regenerate call: exactly one Refinement, carrying
\* the implicit instruction and the provider's output, is appended to the
\* history of the call's Section, and nothing else is written
RegenerateAppendsOne(i) ==
    LET r == reqs[i] IN
    Moves(i, "provider", "inserted") =>
        /\ History(r.target)' =
              Append(History(r.target),
                     [ id           |-> reqs'[i].rid,
                       section_id   |-> r.target,
                       prompt       |-> RegenInstruction,
                       revised_text |-> reqs'[i].out,
                       created_at   |-> now' ])
        /\ Len(refinements') = Len(refinements) + 1
        /\ sections' = sections

StoredFeedback(s) ==
    sections[CHOOSE k \in DOMAIN sections : sections[k].id = s].last_feedback

\* the setFeedback requests addressed to section s
FeedbackCalls(s) ==
    { i \in DOMAIN reqs : reqs[i].op = "feedback" /\ reqs[i].target = s }

\* a setFeedback call is served: last_feedback of its Section becomes the
\* call's value, nothing else in the sections changes, and no change at all
\* when the Section already had that value
FeedbackOverwrites(i) ==
    Moves(i, "sent", "responded") /\ reqs'[i].ok =>
        /\ StoredFeedback(reqs[i].target)' = reqs[i].pages
        /\ sections' = [ k \in DOMAIN sections |->
                           IF sections[k].id = reqs[i].target
                           THEN [sections[k] EXCEPT
                                    !.last_feedback = reqs[i].pages]
                           ELSE sections[k] ]
        /\ StoredFeedback(reqs[i].target) = reqs[i].pages =>
               sections' = sections

\* last_feedback of a Section changes only in the step that serves a
\* setFeedback call on that Section, and a new Section starts unset
FeedbackOnlyBySetFeedback ==
    /\ \A k \in DOMAIN sections :
          sections'[k].last_feedback # sections[k].last_feedback =>
              \E i \in FeedbackCalls(sections[k].id) :
                  /\ Moves(i, "sent", "responded")
                  /\ reqs[i].pages = sections'[k].last_feedback
    /\ \A k \in DOMAIN sections' \ DOMAIN sections :
          sections'[k].last_feedback = NullFeedback

\* SectionCard.sendFeedback shows the value it sent once the call returned
CardShowsFeedback(i) ==
    /\ reqs[i].op = "feedback" /\ reqs[i].origin = "ui"
    /\ Moves(i, "responded", "done")
    /\ reqs[i].target \in CardIds
    => Card(reqs[i].target)'.last_feedback = reqs[i].pages

\* whatever the number of calls made on a Section: unset when none was
\* served, and the value v when all calls have been served and all carried v
FeedbackNotAccumulated ==
    \A s \in StoredSectionIds :
        /\ StoredFeedback(s) \in {NullFeedback, 0, 1}
        /\ (\A i \in FeedbackCalls(s) : reqs[i].phase = "sent")
               => StoredFeedback(s) = NullFeedback
        /\ \A v \in {0, 1} :
              /\ FeedbackCalls(s) # {}
              /\ \A i \in FeedbackCalls(s) :
                    reqs[i].phase # "sent" /\ reqs[i].pages = v
              => StoredFeedback(s) = v

\* C14: setFeedback overwrites rather than accumulates. The step that
\* serves a call sets last_feedback of its Section to the call's value and
\* no other step changes it, so the observable last_feedback is the value of
\* the most recently served call; a call with the value the Section already
\* has changes nothing (calling twice in a row leaves the state of calling
\* once: not duplicated, not toggled); a Section that never received
\* feedback is unset. SectionCard.sendFeedback shows the value it sent.
C14_FeedbackOverwrites ==
    /\ []FeedbackNotAccumulated
    /\ [][ /\ FeedbackOnlyBySetFeedback
           /\ \A i \in DOMAIN reqs :
                 reqs[i].op = "feedback" =>
                     FeedbackOverwrites(i) /\ CardShowsFeedback(i) ]_vars

\* the card sent liked twice in a row and both calls were served and
\* handled: the Section is liked and the card shows liked
C14_Witness ==
    \E s \in StoredSectionIds, i, j \in DOMAIN reqs :
        /\ i < j
        /\ {i, j} \subseteq FeedbackCalls(s)
        /\ reqs[i].origin = "ui" /\ reqs[j].origin = "ui"
        /\ reqs[i].after = 0
        /\ reqs[i].phase = "done" /\ reqs[j].phase = "done"
        /\ reqs[i].pages = 1 /\ reqs[j].pages = 1
        /\ StoredFeedback(s) = 1
        /\ s \in CardIds /\ Card(s).last_feedback = 1


\* addComment with an empty text is answered with ValidationError in a
\* step that writes nothing
EmptyCommentRejected(i) ==
    Moves(i, "sent", "responded") /\ reqs[i].prompt = <<>> =>
        /\ ~reqs'[i].ok
        /\ reqs'[i].err = "ValidationError"
        /\ reqs'[i].body.comment = NoComment
        /\ store' = store

\* addComment with a non-empty text on a Section of the store appends
\* exactly one Comment with a fresh id to the Section, changes no earlier
\* Comment and nothing else, and answers that Comment
CommentAppended(i) ==
    LET r == reqs[i] IN
    /\ Moves(i, "sent", "responded")
    /\ r.prompt # <<>>
    /\ r.target \in StoredSectionIds
    => /\ reqs'[i].ok
       /\ Len(comments') = Len(comments) + 1
       /\ IsPrefix(comments, comments')
       /\ Last(comments').section_id = r.target
       /\ Last(comments').comment = r.prompt
       /\ \A k \in DOMAIN comments : comments[k].id # Last(comments').id
       /\ CommentsOf(r.target)' = Append(CommentsOf(r.target), Last(comments'))
       /\ reqs'[i].body.comment = CommentJson(Last(comments'))
       /\ << documents, sections, refinements, feedback >>' =
              << documents, sections, refinements, feedback >>

\* the comments change in no other step
CommentsOnlyByAddComment ==
    comments' # comments =>
        \E i \in DOMAIN reqs : reqs[i].op = "comment"
                               /\ Moves(i, "sent", "responded")

\* the clients send no comment request with an empty text
NoEmptyCommentSent ==
    \A j \in NewRequests :
        reqs'[j].op = "comment" /\ reqs'[j].origin \in Clients =>
            reqs'[j].prompt # <<>>

\* on a successful response the card shows the returned Comment after the
\* comments it showed when the request was made
CardShowsComment(i) ==
    /\ reqs[i].op = "comment" /\ reqs[i].origin = "ui"
    /\ Moves(i, "responded", "done")
    /\ reqs[i].target \in CardIds
    => Card(reqs[i].target)'.comments =
           IF reqs[i].ok
           THEN Append(reqs[i].seen, reqs[i].body.comment)
           ELSE Card(reqs[i].target).comments

\* C15: addComment with empty text fails with ValidationError and adds
\* nothing; with non-empty text it appends exactly one Comment to the
\* Section and returns that Comment (id, comment, created_at), leaving all
\* earlier Comments unchanged; SectionCard.sendComment and
\* RefinementEditor.sendComment send no comment request for empty text.
C15_AddCommentContract ==
    [][ /\ CommentsOnlyByAddComment
        /\ NoEmptyCommentSent
        /\ \A i \in DOMAIN reqs :
              reqs[i].op = "comment" =>
                  /\ EmptyCommentRejected(i)
                  /\ CommentAppended(i)
                  /\ CardShowsComment(i) ]_vars

\* a comment sent from a card was stored as the first Comment of its
\* Section and is shown on the card, and another caller's comment with an
\* empty text was refused with ValidationError: the Section still has that
\* one Comment
C15_Witness ==
    \E i, j \in DOMAIN reqs :
        /\ reqs[i].op = "comment" /\ reqs[i].origin = "ui"
        /\ reqs[i].phase = "done" /\ reqs[i].ok
        /\ reqs[j].op = "comment" /\ reqs[j].origin = "api"
        /\ reqs[j].target = reqs[i].target
        /\ reqs[j].prompt = <<>>
        /\ reqs[j].phase = "responded" /\ reqs[j].err = "ValidationError"
        /\ Len(CommentsOf(reqs[i].target)) = 1
        /\ CommentJson(CommentsOf(reqs[i].target)[1]) = reqs[i].body.comment
        /\ reqs[i].body.comment.comment = reqs[i].prompt
        /\ reqs[i].target \in CardIds
        /\ Card(reqs[i].target).comments = << reqs[i].body.comment >>


\* export with a format outside the enumerated set is refused in a step
\* that changes no stored state, with ValidationError (or, if the document
\* id is unknown as well, with one of the two errors that apply), and the
\* response carries no bytes
BadFormatRejected(i) ==
    Moves(i, "sent", "responded") /\ reqs[i].text \notin ExportFormats =>
        /\ ~reqs'[i].ok
        /\ reqs'[i].err \in {"ValidationError", "NotFoundError"}
        /\ reqs[i].target \in StoredDocumentIds =>
               reqs'[i].err = "ValidationError"
        /\ reqs'[i].body = ErrorBody
        /\ store' = store /\ now' = now

\* DownloadBar.download hands a file to the browser for a 2xx response
\* only, and then one file holding the bytes of the response
DownloadOnlyIfOk(i) ==
    /\ reqs[i].origin = "ui"
    /\ Moves(i, "responded", "done")
    => downloads' = IF reqs[i].ok
                    THEN Append(downloads,
                                [ document |-> reqs[i].target,
                                  ext      |-> reqs[i].text,
                                  bytes    |-> reqs[i].body.doc ])
                    ELSE downloads

\* no other step changes the downloads
DownloadsOnlyByDownload ==
    downloads' # downloads =>
        \E i \in DOMAIN reqs : /\ reqs[i].op = "export"
                               /\ reqs[i].origin = "ui"
                               /\ Moves(i, "responded", "done")

\* C16: export with a format string outside {docx, pptx, pdf} fails with
\* ValidationError, produces no bytes and changes no stored state; on a
\* failed export response DownloadBar.download creates no download.
C16_BadFormatExportRejected ==
    [][ /\ DownloadsOnlyByDownload
        /\ \A i \in DOMAIN reqs :
              reqs[i].op = "export" =>
                  BadFormatRejected(i) /\ DownloadOnlyIfOk(i) ]_vars

\* an export of a stored document in format txt was refused with
\* ValidationError, and an export the DownloadBar asked for has failed and
\* been handled: nothing has been downloaded
C16_Witness ==
    \E i, j \in DOMAIN reqs :
        /\ reqs[i].op = "export" /\ reqs[i].text = "txt"
        /\ reqs[i].target \in StoredDocumentIds
        /\ reqs[i].phase = "responded" /\ reqs[i].err = "ValidationError"
        /\ reqs[j].op = "export" /\ reqs[j].origin = "ui"
        /\ reqs[j].phase = "done" /\ ~reqs[j].ok
        /\ downloads = <<>>


\* the getDocument and export requests answered so far
Lookups ==
    { i \in DOMAIN reqs : reqs[i].op \in {"get", "export"} /\ ~Serving(i) }

\* a getDocument or export request for an id no Document has was refused
\* with NotFoundError (an export whose format is refused as well: with one
\* of the two errors) and its response carries no Document and no bytes
UnknownIdRefused ==
    \A i \in Lookups :
        reqs[i].target \notin StoredDocumentIds =>
            /\ ~reqs[i].ok
            /\ reqs[i].body = ErrorBody
            /\ reqs[i].err = "NotFoundError"
               \/ /\ reqs[i].op = "export"
                  /\ reqs[i].text \notin ExportFormats
                  /\ reqs[i].err = "ValidationError"

\* serving getDocument or export writes nothing
LookupWritesNothing ==
    \A i \in DOMAIN reqs :
        reqs[i].op \in {"get", "export"} /\ Moves(i, "sent", "responded") =>
            store' = store /\ now' = now

\* no client holds the body of an error response as its document
NoErrorDocInstalled ==
    /\ currentDoc # ErrorDoc
    /\ edDoc # ErrorDoc
    /\ pvDoc # ErrorDoc

\* C17: getDocument and export on a document id that does not exist fail
\* with NotFoundError, return no Document and no bytes, and change no
\* state; the client does not install an error response as the current
\* document.
C17_UnknownDocumentRefused ==
    /\ [](UnknownIdRefused /\ NoErrorDocInstalled)
    /\ [][LookupWritesNothing]_vars


\* createDocument with an empty title is answered with ValidationError in
\* a step that writes nothing
EmptyTitleRejected(i) ==
    Moves(i, "sent", "responded") /\ reqs[i].prompt = <<>> =>
        /\ ~reqs'[i].ok
        /\ reqs'[i].err = "ValidationError"
        /\ store' = store

\* createDocument with a non-empty title inserts exactly one Document, with
\* that title and an id no Document had, changes nothing else, and answers
\* the new id; the new Document has no Sections
DocumentCreated(i) ==
    Moves(i, "sent", "responded") /\ reqs[i].prompt # <<>> =>
        /\ reqs'[i].ok
        /\ Len(documents') = Len(documents) + 1
        /\ IsPrefix(documents, documents')
        /\ Last(documents').title = reqs[i].prompt
        /\ Last(documents').id \notin StoredDocumentIds
        /\ reqs'[i].body.doc.id = Last(documents').id
        /\ SelectRows(sections', "document_id", Last(documents').id) = <<>>
        /\ << sections, refinements, comments, feedback >>' =
               << sections, refinements, comments, feedback >>

\* the documents change in no other step
DocumentsOnlyByCreate ==
    documents' # documents =>
        \E i \in DOMAIN reqs : reqs[i].op = "create"
                               /\ Moves(i, "sent", "responded")

\* Dashboard.createNew / App.handleCreatedDoc show the created document with
\* an empty section list
ClientShowsNewDocument(i) ==
    /\ reqs[i].origin = "ui"
    /\ Moves(i, "responded", "done")
    /\ reqs[i].ok
    => currentDoc' = [id |-> reqs[i].body.doc.id, sections |-> <<>>]

\* the ids of the documents are pairwise distinct
DocumentIdsUnique ==
    \A k, m \in DOMAIN documents : documents[k].id = documents[m].id => k = m

\* C18: createDocument with an empty title fails with ValidationError and
\* inserts nothing; with a non-empty title it inserts exactly one new
\* Document with a fresh unique id and no Sections, and the client shows the
\* new document with an empty section list.
C18_CreateDocumentContract ==
    /\ []DocumentIdsUnique
    /\ [][ /\ DocumentsOnlyByCreate
           /\ \A i \in DOMAIN reqs :
                 reqs[i].op = "create" =>
                     /\ EmptyTitleRejected(i)
                     /\ DocumentCreated(i)
                     /\ ClientShowsNewDocument(i) ]_vars

\* the Dashboard created the second Document of the store and shows it with
\* an empty section list, and a createDocument with an empty title was
\* refused with ValidationError
C18_Witness ==
    \E i, j \in DOMAIN reqs :
        /\ reqs[i].op = "create" /\ reqs[i].origin = "ui"
        /\ reqs[i].phase = "done" /\ reqs[i].ok
        /\ reqs[i].body.doc.id = 2
        /\ Len(documents) = 2
        /\ documents[2].id = 2 /\ documents[2].title = reqs[i].prompt
        /\ currentDoc = [id |-> 2, sections |-> <<>>]
        /\ reqs[j].op = "create" /\ reqs[j].prompt = <<>>
        /\ reqs[j].phase = "responded" /\ reqs[j].err = "ValidationError"


\* the refine and regenerate requests
RefineCalls == { i \in DOMAIN reqs : reqs[i].op \in RefineOps }

\* a step calls the provider at most once, and a provider call for a
\* refine/regenerate request is made in the step that takes the request
\* from sent to provider
OneProviderCallPerStep ==
    /\ providerCalls' \in { providerCalls, providerCalls + 1 }
    /\ \A i \in RefineCalls :
          reqs'[i].phase # reqs[i].phase /\ ~Moves(i, "sent", "provider") =>
              providerCalls' = providerCalls

\* a request leaves sent once and never comes back to sent or provider: the
\* server calls the provider at most once for it, and not again after the
\* provider failed
NeverServedAgain(i) ==
    /\ reqs[i].phase # "sent" => reqs'[i].phase \notin {"sent"}
    /\ reqs[i].phase \notin {"sent", "provider"} =>
           reqs'[i].phase \notin {"sent", "provider"}
    /\ reqs'[i].op = reqs[i].op /\ reqs'[i].target = reqs[i].target

\* no refine/regenerate request is made in a step that serves a request or
\* handles a response: every one is made by an action of the user
OnlyTheUserSends ==
    \A j \in NewRequests :
        reqs'[j].op \in RefineOps =>
            /\ reqs'[j].after = 0
            /\ \A i \in DOMAIN reqs : reqs'[i].phase = reqs[i].phase

\* the client handles the failure of the provider by giving the control
\* back to the user: its loading flag is cleared
FailureHandedToUser(i) ==
    /\ Moves(i, "responded", "done")
    /\ reqs[i].err = "RefinementError"
    => /\ reqs[i].origin = "ui" /\ reqs[i].op = "refine"
           => ~loadingRefine'[reqs[i].target]
       /\ reqs[i].origin = "ui" /\ reqs[i].op = "regenerate"
           => ~loadingRegen'[reqs[i].target]
       /\ reqs[i].origin = "editor" => ~edLoading'

\* C19: no automatic retry. One refine or regenerate request causes at most
\* one AI Text Provider call, and after a provider failure no further
\* provider call and no further request is made for that operation until
\* the user explicitly triggers it again: neither the server nor
\* SectionCard.refine / regenerate nor RefinementEditor.sendRefinement
\* re-sends.
C19_NoAutomaticRetry ==
    [][ /\ OneProviderCallPerStep
        /\ OnlyTheUserSends
        /\ \A i \in RefineCalls :
              NeverServedAgain(i) /\ FailureHandedToUser(i) ]_vars

\* the provider failed on a refine sent from a card; the card handled the
\* response, and the refine the user then sent again from the same card
\* was answered with a revision: three provider calls in all, one for the
\* generated page and one for each of the two requests
C19_Witness ==
    \E i, j \in RefineCalls :
        /\ i < j
        /\ reqs[i].origin = "ui" /\ reqs[j].origin = "ui"
        /\ reqs[i].op = "refine" /\ reqs[j].op = "refine"
        /\ reqs[i].target = reqs[j].target
        /\ reqs[i].phase = "done" /\ reqs[i].err = "RefinementError"
        /\ reqs[j].after = 0
        /\ reqs[j].phase = "done" /\ reqs[j].ok
        /\ providerCalls = 3
        /\ Len(History(reqs[i].target)) = 1


\* the section_id of every row of a table names a Section of the store
RowsBelongToSections(table) ==
    \A k \in DOMAIN table : table[k].section_id \in StoredSectionIds

\* every Section belongs to a Document of the store, and every Refinement,
\* Comment and Feedback row to a Section of the store
ReferentialIntegrity ==
    /\ \A k \in DOMAIN sections : sections[k].document_id \in StoredDocumentIds
    /\ RowsBelongToSections(refinements)
    /\ RowsBelongToSections(comments)
    /\ RowsBelongToSections(feedback)

\* a refine, regenerate, setFeedback or addComment request addressed to an
\* id no Section has is answered with NotFoundError by the step that takes
\* it up, which writes nothing and calls no provider
UnknownSectionCreatesNoRow(i) ==
    /\ reqs[i].op \in SectionOps
    /\ reqs[i].phase = "sent" /\ reqs'[i].phase # "sent"
    /\ reqs[i].target \notin StoredSectionIds
    => /\ reqs'[i].phase = "responded"
       /\ ~reqs'[i].ok
       /\ reqs'[i].err = "NotFoundError"
       /\ store' = store
       /\ providerCalls' = providerCalls

\* C20: referential integrity holds in every reachable state: each
\* Section's document_id names an existing Document and each Refinement,
\* Comment and Feedback row's section_id names an existing Section; refine,
\* regenerate, setFeedback and addComment addressed to an unknown section id
\* create no row.
C20_ReferentialIntegrity ==
    /\ []ReferentialIntegrity
    /\ [][ \A i \in DOMAIN reqs : UnknownSectionCreatesNoRow(i) ]_vars

\* the store holds a Section with a Refinement, and a request addressed to
\* an id no Section has was refused with NotFoundError: the tables hold
\* the rows of the Section and no other
C20_Witness ==
    \E i \in DOMAIN reqs :
        /\ reqs[i].op \in SectionOps
        /\ reqs[i].target \notin StoredSectionIds
        /\ reqs[i].phase = "responded" /\ reqs[i].err = "NotFoundError"
        /\ Len(sections) = 1
        /\ Len(refinements) = 1
        /\ refinements[1].section_id = sections[1].id
        /\ sections[1].document_id = documents[1].id

\* ------------------------------------------------------------------------
\* C21: for every non-2xx response each client error path shows the user
\* the server's message, whether the body carries it under the key error or
\* under the key detail
\* ------------------------------------------------------------------------

C21_EitherKeySurfaced ==
    \A p \in ErrorPaths :
        surfaced[p] # Absent => surfaced[p] = response.said

\* ------------------------------------------------------------------------
\* C22: SectionCard.regenerate sends only after the user confirms
\* ------------------------------------------------------------------------

\* the confirm() dialog of card s is declined: no request is sent,
\* loadingRegen of the card stays false, and the card (its text and its
\* refinements), like everything else the client and the services hold, is
\* as it was
DeclineChangesNothing(s) ==
    UiRegenerate(s, FALSE) =>
        /\ reqs' = reqs
        /\ ~loadingRegen[s] /\ ~loadingRegen'[s]
        /\ loadingRegen' = loadingRegen
        /\ currentDoc' = currentDoc
        /\ Card(s)' = Card(s)
        /\ store' = store
        /\ providerCalls' = providerCalls

\* a regenerate request of a card is sent by a step in which the dialog
\* was confirmed, and that step raises the card's loadingRegen
SentOnlyWhenConfirmed ==
    \A j \in NewRequests :
        (reqs'[j].op = "regenerate" /\ reqs'[j].origin = "ui") =>
            /\ ~cancelled'
            /\ UiRegenerate(reqs'[j].target, TRUE)
            /\ loadingRegen'[reqs'[j].target]

\* C22: SectionCard.regenerate sends a regenerate request only after the
\* user confirms the dialog: when the confirmation is declined, no request
\* is sent, loadingRegen stays false and the section's local text and
\* refinements are unchanged.
C22_RegenerateOnlyAfterConfirm ==
    [][ /\ \A s \in SectionIds : DeclineChangesNothing(s)
        /\ SentOnlyWhenConfirmed ]_vars

\* the dialog of a card that shows a refined text was declined: the card
\* still shows the text and its history, nothing of the card is in flight
\* and no regenerate request was ever sent
C22_Witness ==
    /\ cancelled
    /\ \E s \in CardIds :
          /\ ~loadingRegen[s] /\ ~loadingRefine[s]
          /\ Card(s).text = StoredText(s)
          /\ Len(Card(s).refinements) = 1
          /\ Card(s).refinements = History(s)
    /\ \A i \in DOMAIN reqs : reqs[i].op # "regenerate"

\* ------------------------------------------------------------------------
\* C23: the client chooses the current_text of a refine request
\* ------------------------------------------------------------------------

\* the unsaved local edit client o holds for section s (the section cards
\* of app.js hold none)
LocalEdit(o, s) ==
    CASE o = "editor" -> localEdits[s]
      [] o = "viewer" -> editing[s]
      [] OTHER        -> NoEdit

\* the text of section s as client o last loaded it
LoadedText(o, s) ==
    CASE o = "editor" -> Find(edDoc, s).text
      [] o = "viewer" -> Find(pvDoc, s).text
      [] OTHER        -> Card(s).text

\* a refine request a client sends carries the client's local edit for
\* the request's section if there is one, and the section's last-loaded
\* text otherwise
SendsChosenText ==
    \A j \in NewRequests :
        (reqs'[j].op = "refine" /\ reqs'[j].origin \in Clients) =>
            LET o == reqs'[j].origin
                s == reqs'[j].target
            IN  reqs'[j].text = IF LocalEdit(o, s) # NoEdit
                                THEN LocalEdit(o, s)
                                ELSE LoadedText(o, s)

\* no step of the services or of a client changes the current_text of a
\* request that was sent
SentTextKept ==
    \A i \in DOMAIN reqs : reqs'[i].text = reqs[i].text

\* C23: the current_text sent with a refine request is chosen by the
\* client: it is the client's unsaved local edit for that section whenever
\* one exists (including an edit that is the empty string), and the
\* section's last-loaded text otherwise; it is never another section's
\* text.
C23_ClientChoosesCurrentText ==
    [][ SendsChosenText /\ SentTextKept ]_vars

\* the RefinementEditor or the ProjectViewer has sent a refine request
\* with the empty string, the local edit of its section, while the section
\* was loaded with a non-empty text and another section has the local edit
\* "e"
C23_Witness ==
    \E i \in DOMAIN reqs :
        /\ reqs[i].op = "refine" /\ reqs[i].origin \in { "editor", "viewer" }
        /\ reqs[i].phase = "sent"
        /\ reqs[i].text = ""
        /\ LocalEdit(reqs[i].origin, reqs[i].target) = ""
        /\ LoadedText(reqs[i].origin, reqs[i].target) = "g"
        /\ \E s \in SectionIds \ { reqs[i].target } :
              LocalEdit(reqs[i].origin, s) = "e"

\* ------------------------------------------------------------------------
\* C24: what RefinementEditor.sendRefinement changes
\* ------------------------------------------------------------------------

\* request i is a refine of the RefinementEditor
EditorRefine(i) == reqs[i].op = "refine" /\ reqs[i].origin = "editor"

\* on a 2xx response the targeted section takes the response's
\* revised_text and refinements and only its local edit is removed; every
\* other section and every other local edit is as it was
SuccessReplacesTarget(i) ==
    LET r == reqs[i] IN
    (EditorRefine(i) /\ Moves(i, "responded", "done") /\ r.ok) =>
        /\ edDoc'.id = edDoc.id
        /\ Len(edDoc'.sections) = Len(edDoc.sections)
        /\ \A k \in DOMAIN edDoc.sections :
              edDoc'.sections[k] =
                 IF edDoc.sections[k].id = r.target
                 THEN [edDoc.sections[k] EXCEPT
                          !.text = r.body.text,
                          !.refinements = r.body.refinements]
                 ELSE edDoc.sections[k]
        /\ localEdits'[r.target] = NoEdit
        /\ \A s \in SectionIds \ { r.target } :
              localEdits'[s] = localEdits[s]

\* a non-2xx response or a network error leaves doc and localEdits as they
\* were
FailureChangesNothing(i) ==
    (EditorRefine(i)
       /\ \/ Moves(i, "responded", "done") /\ ~reqs[i].ok
          \/ Moves(i, "sent", "done")) =>
        /\ edDoc' = edDoc
        /\ localEdits' = localEdits

\* loading is false after every outcome
LoadingCleared(i) ==
    (EditorRefine(i) /\ reqs[i].phase # "done" /\ reqs'[i].phase = "done")
        => ~edLoading'

\* C24: in RefinementEditor.sendRefinement, a 2xx response replaces only
\* the targeted section's text and refinements with the response's
\* revised_text and refinements and removes only that section's local
\* edit; a non-2xx response or a network error leaves doc and localEdits
\* unchanged; every other section and every other local edit is untouched
\* in all outcomes, and loading returns to false in all outcomes.
C24_SendRefinementFrame ==
    [][ \A i \in DOMAIN reqs :
           /\ SuccessReplacesTarget(i)
           /\ FailureChangesNothing(i)
           /\ LoadingCleared(i) ]_vars

\* a refine of the RefinementEditor succeeded on a section that had a
\* local edit while another section had one too: the section shows the
\* revised text and its history, its local edit is gone, the other
\* section keeps its loaded text and its local edit, loading is false
C24_Witness ==
    \E i \in DOMAIN reqs :
        /\ EditorRefine(i) /\ reqs[i].phase = "done" /\ reqs[i].ok
        /\ reqs[i].text \in EditInputs
        /\ Find(edDoc, reqs[i].target).text = reqs[i].out
        /\ Find(edDoc, reqs[i].target).refinements = History(reqs[i].target)
        /\ localEdits[reqs[i].target] = NoEdit
        /\ \E s \in IdsOf(edDoc) \ { reqs[i].target } :
              /\ localEdits[s] = "e"
              /\ Find(edDoc, s).text = "g"
        /\ ~edLoading

\* ------------------------------------------------------------------------
\* C25: the debounced autosave of the SectionEditor
\* ------------------------------------------------------------------------

\* the saves a step issues
IssuedSaves ==
    { k \in DOMAIN autosave'.saves : k \notin DOMAIN autosave.saves }

\* a save is issued only when 800 ms have passed since the last keystroke;
\* it is the only one of its step and carries the value of the textarea
SavedAfterQuietWindow ==
    \A k \in IssuedSaves :
        /\ autosave.pending
        /\ autosave.elapsed >= DebounceMs
        /\ autosave'.content = autosave.content
        /\ autosave'.saves[k].value = autosave.content
        /\ Len(autosave'.saves) = Len(autosave.saves) + 1

\* a keystroke issues no save and starts the wait anew: a value that is
\* typed over inside the window is never sent
KeystrokeRestartsWait ==
    autosave'.content # autosave.content =>
        /\ autosave'.saves = autosave.saves
        /\ autosave'.pending
        /\ autosave'.elapsed = 0

\* once the timer has run after the last keystroke, the last save issued
\* carries the last value typed
LastSaveCarriesLastValue ==
    (autosave.typed > 0 /\ ~autosave.pending) =>
        /\ autosave.saves # <<>>
        /\ Last(autosave.saves).value = autosave.content

\* every save was applied, in issue order
AppliedInIssueOrder ==
    /\ autosave.ordered
    /\ \A k \in DOMAIN autosave.saves : autosave.saves[k].state = "applied"

\* when the saves were applied in issue order the stored content is the
\* last value typed
ConvergesInIssueOrder ==
    (autosave.typed > 0 /\ ~autosave.pending /\ AppliedInIssueOrder) =>
        autosave.stored = autosave.content

\* typing stops, the timer runs, and from then on the last save issued
\* carries the last value typed
TypingStops ==
    /\ ~autosave.pending
    /\ autosave.typed > 0 => Last(autosave.saves).value = autosave.content

\* C25: SectionEditor's debounced autosave issues patchSection only after
\* 800 ms without a further keystroke, drops intermediate values typed
\* inside the window, and once typing stops the last save request issued
\* carries exactly the last value typed, so the final stored content
\* converges to the last typed value when saves are applied in issue order.
C25_DebouncedAutosave ==
    /\ [][SavedAfterQuietWindow /\ KeystrokeRestartsWait]_vars
    /\ [](LastSaveCarriesLastValue /\ ConvergesInIssueOrder)
    /\ <>[]TypingStops

\* three values were typed and one save was issued, carrying the third;
\* it was applied and the stored content is the value of the textarea
C25_Witness ==
    /\ autosave.typed = 3
    /\ Len(autosave.saves) = 1
    /\ ~autosave.pending
    /\ autosave.saves[1].value = autosave.content
    /\ autosave.saves[1].state = "applied"
    /\ autosave.stored = autosave.content

\* ------------------------------------------------------------------------
\* C26: no Refinement append is lost under concurrency
\* ------------------------------------------------------------------------

\* the refine and regenerate calls on section s
CallsOn(s) ==
    { i \in DOMAIN reqs : reqs[i].op \in RefineOps /\ reqs[i].target = s }

\* the entries of the history of s that call i appended: the rows with the
\* id the call's insert was given, carrying the call's revisedText
EntriesOf(s, i) ==
    { k \in DOMAIN History(s) :
        /\ History(s)[k].id = reqs[i].rid
        /\ History(s)[k].revised_text = reqs[i].out }

OverlappedAndApplied(i, j) ==
    /\ reqs[i].op = "refine" /\ reqs[j].op = "regenerate"
    /\ reqs[i].origin = "ui" /\ reqs[j].origin = "ui"
    /\ reqs[i].target = reqs[j].target
    /\ ~reqs[i].alone /\ ~reqs[j].alone
    /\ reqs[i].phase = "done" /\ reqs[j].phase = "done"
    /\ reqs[i].ok /\ reqs[j].ok
    /\ CallsOn(reqs[i].target) = { i, j }
    /\ reqs[i].target \in CardIds

\* C27: when a refine and a regenerate issued from the same SectionCard
\* overlap (they use separate in-flight flags) and both succeed, then after
\* both responses have been applied the text shown by the client for that
\* section equals the text stored by the server for it.
C27_ClientTextEqualsStoredText ==
    \A i, j \in DOMAIN reqs :
        OverlappedAndApplied(i, j) =>
            Card(reqs[i].target).text = StoredText(reqs[i].target)

\* ------------------------------------------------------------------------
\* C28: after handleLogout, currentDoc stays null until a logged-in user
\* selects or creates a document: a document fetch started by
\* handleSelectDoc before the logout does not set currentDoc after it, so
\* the next user who logs in starts on the Dashboard
\* ------------------------------------------------------------------------

\* the step sets currentDoc to a document
DocumentInstalled == currentDoc = NoDoc /\ currentDoc' # NoDoc

C28_NoDocumentAfterLogout ==
    [][ /\ DocumentInstalled => loggedIn
        /\ (~loggedIn /\ loggedIn') => currentDoc' = NoDoc ]_vars

\* ------------------------------------------------------------------------
\* C29: two comment submissions of one card that overlap
\* ------------------------------------------------------------------------

\* the comments of q, as a set
CommentSet(q) == { q[k] : k \in DOMAIN q }

\* comment submissions i and j of one card: j was issued before the
\* response to i was handled, both succeeded and both responses have been
\* handled
BothSubmitted(i, j) ==
    /\ i < j
    /\ reqs[i].op = "comment" /\ reqs[j].op = "comment"
    /\ reqs[i].origin = "ui" /\ reqs[j].origin = "ui"
    /\ reqs[i].target = reqs[j].target
    /\ ~reqs[j].alone
    /\ reqs[i].phase = "done" /\ reqs[j].phase = "done"
    /\ reqs[i].ok /\ reqs[j].ok
    /\ reqs[i].target \in CardIds

\* C29: when two comment submissions for the same section are issued from
\* SectionCard before either response arrives and both succeed, the
\* section's local comment list afterwards contains both created comments
\* (neither response handler overwrites the other's addition).
C29_BothCommentsKept ==
    \A i, j \in DOMAIN reqs :
        BothSubmitted(i, j) =>
            { reqs[i].body.comment, reqs[j].body.comment }
                \subseteq CommentSet(Card(reqs[i].target).comments)


\* ------------------------------------------------------------------------
\* C30: the feedback a card shows and the feedback the store holds
\* ------------------------------------------------------------------------

\* the feedback requests on section s
FeedbackOn(s) ==
    { k \in DOMAIN reqs : reqs[k].op = "feedback" /\ reqs[k].target = s }

\* every sendFeedback of card s has completed, and nobody else set the
\* feedback of s
FeedbackCompleted(s) ==
    /\ s \in CardIds
    /\ FeedbackOn(s) # {}
    /\ \A k \in FeedbackOn(s) :
           reqs[k].origin = "ui" /\ reqs[k].phase = "done"

\* the step in which sendFeedback continues after its fetch changes the
\* value the card shows only when the response was 2xx
ChangedOnlyOnSuccess ==
    \A i \in DOMAIN reqs :
        ( /\ reqs[i].op = "feedback" /\ reqs[i].origin = "ui"
          /\ Moves(i, "responded", "done")
          /\ ~reqs[i].ok
          /\ reqs[i].target \in CardIds )
        => Card(reqs[i].target)'.last_feedback
               = Card(reqs[i].target).last_feedback

\* the card shows what the store holds
ShowsStoredFeedback ==
    \A s \in SectionIds :
        FeedbackCompleted(s) =>
            \E k \in DOMAIN sections :
                /\ sections[k].id = s
                /\ sections[k].last_feedback = Card(s).last_feedback

\* C30: after a client sendFeedback completes, the section's local
\* feedback value is changed only if the server accepted the feedback with
\* a 2xx response (on a non-2xx response or a network error the local
\* value is unchanged), so the client's displayed feedback never differs
\* from the server's stored last_feedback.
C30_FeedbackShownIsStored ==
    [][ChangedOnlyOnSuccess]_vars /\ []ShowsStoredFeedback

====
